---- MODULE Spec2Model ----
(***************************************************************************)
(* pyapp-base: configuration manager (app_config.py), argument            *)
(* post-processing / dependency validation (app_argparser.py), the checks  *)
(* of app_validation.py with the errors of app_exceptions.py, the entry    *)
(* point (main.py, __main__.py) and the logger setup (app_logger.py).      *)
(*                                                                         *)
(* app_argparser.py imports ConfigError and reads app_const.DEFAULT_LOG_   *)
(* LEVEL and DEFAULT_LOG_FILE, which no source file defines; the model     *)
(* takes the import and the construction of the parser as succeeding and   *)
(* follows the methods from there.                                         *)
(*                                                                         *)
(* Python dictionaries are mutable objects with identity.  The model keeps *)
(* them in a heap (a sequence of dict objects, the index is the address);  *)
(* a value held by a dict is either a scalar or a reference to another     *)
(* dict.  dict.copy() is a shallow copy: a new object whose values are the *)
(* same references.  JSON text and literals are pure trees.                *)
(***************************************************************************)
EXTENDS Integers, Sequences, FiniteSets, TLC

VARIABLES
    heap,                  \* the dict objects of the process
    default_config,        \* AppConfig.default_config (address), 0 before __init__
    config,                \* AppConfig.config (address), 0 before __init__
    config_dir,            \* AppConfig.config_dir
    config_file,           \* AppConfig.config_file: [dir, name]
    create_if_not_exists,  \* AppConfig.create_if_not_exists
    file,                  \* the file at config_file: [st, tree]
    dirs,                  \* the directories that exist
    last,                  \* the last call: [op, exc, p, v, ret]
    pre,                   \* the state the last call started from
    nops,                  \* number of calls made after construction
    mA, mB, mR,            \* _merge_configs applied to two literal trees
    declared,              \* the optional flags the application's parser declares
    fs,                    \* the kind of each path the command line can name
    cli,                   \* the last parser call: [call, argv, exc, ret]
    exit_code,             \* the exit status of the last run of the package
    chk,                   \* the last call of a check of app_validation.py
    logger,                \* logging.getLogger(APP_NAME): [level, handlers, records]
    app_logger,            \* app_logger._app_logger: the AppLogger instance or none
    logfs,                 \* the state of the log directory and the log file
    lg,                    \* the last call of setup_logger or set_log_level
    config_manager,        \* app_config._config_manager: 0 for None, else the instance
    instances,             \* the number of AppConfig objects constructed
    written,               \* the set_config writes not overwritten since
    ctx,                   \* the LogContext in use: [level, name, phase, raised, exc]
    ctxlog,                \* the logging calls the LogContext has made on its logger
    nctx                   \* the number of LogContexts created

cfgVars == <<heap, default_config, config, config_dir, config_file,
             create_if_not_exists, file, dirs, last, pre, nops>>
mergeVars == <<mA, mB, mR>>
argVars == <<declared, fs, cli, exit_code>>
checkVars == <<chk>>
logVars == <<logger, app_logger, logfs, lg>>
mgrVars == <<config_manager, instances, written>>
ctxVars == <<ctx, ctxlog, nctx>>
vars == <<cfgVars, mergeVars, argVars, checkVars, logVars, mgrVars, ctxVars>>

-----------------------------------------------------------------------------
(* Bounds *)

MaxOps == 2
MaxVerbose == 2
MaxValue == 2
MaxFlags == 3
MaxCalls == 3
MaxContexts == 2

-----------------------------------------------------------------------------
(* Values *)

\* a pure tree: a scalar (str, number, bool, None, list: all immutable here)
\* or a mapping from keys to pure trees
PS(s) == [k |-> "s", s |-> s, d |-> <<>>]
PD(f) == [k |-> "d", s |-> "", d |-> f]

\* a value held in the heap: a scalar or the address of a dict
Scalar(s) == [k |-> "s", s |-> s, a |-> 0]
Ref(a) == [k |-> "d", s |-> "", a |-> a]

NoneV == PS("None")
EmptyDict == PD(<<>>)

\* app_const.APP_NAME, app_const.APP_VERSION
APP_NAME == "pyapp-base"
APP_VERSION == "0.1.0"

\* AppConfig.__init__: self.default_config = {...}
DefaultTree ==
    PD([app |-> PD([name |-> PS(APP_NAME),
                    version |-> PS(APP_VERSION),
                    debug_mode |-> PS("false")]),
        logging |-> PD([level |-> PS("INFO"),
                        log_dir |-> PS("logs"),
                        enable_console |-> PS("true"),
                        enable_file |-> PS("true")]),
        gui |-> PD([window_width |-> PS("800"),
                    window_height |-> PS("600"),
                    theme |-> PS("default")]),
        processing |-> PD([max_file_size |-> PS("100MB"),
                           supported_formats |-> PS("[jpg,png,gif,bmp,tiff]"),
                           output_format |-> PS("json")])])

-----------------------------------------------------------------------------
(* Heap operations *)

RECURSIVE Alloc(_, _)
RECURSIVE AllocItems(_, _, _, _)

\* build the objects of a pure tree (json.load, a dict literal):
\* returns the new heap and the heap value
Alloc(h, pv) ==
    IF pv.k = "s"
    THEN [h |-> h, v |-> Scalar(pv.s)]
    ELSE LET r == AllocItems(h, pv.d, DOMAIN pv.d, <<>>)
         IN  [h |-> Append(r.h, r.obj), v |-> Ref(Len(r.h) + 1)]

AllocItems(h, d, keys, obj) ==
    IF keys = {}
    THEN [h |-> h, obj |-> obj]
    ELSE LET key == CHOOSE x \in keys : TRUE
             c == Alloc(h, d[key])
         IN  AllocItems(c.h, d, keys \ {key}, (key :> c.v) @@ obj)

RECURSIVE Deref(_, _)
\* the pure tree a heap value stands for (json.dump, comparison by value)
Deref(h, v) ==
    IF v.k = "s"
    THEN PS(v.s)
    ELSE PD([key \in DOMAIN h[v.a] |-> Deref(h, h[v.a][key])])

\* dict.copy(): a new dict object holding the same values (shallow)
DictCopy(h, a) == [h |-> Append(h, h[a]), a |-> Len(h) + 1]

\* d[key] = value
SetItem(h, a, key, value) == [h EXCEPT ![a] = (key :> value) @@ @]

-----------------------------------------------------------------------------
(* AppConfig._merge_configs *)

RECURSIVE MergeConfigs(_, _, _)
RECURSIVE MergeItems(_, _, _, _)

\* a merge that never recurses: the override value always wins
MergeOverwrites(h, result, key, value) == FALSE

\* the branch condition of the loop body
MergeRecurses(h, result, key, value) ==
    /\ key \in DOMAIN h[result]
    /\ h[result][key].k = "d"
    /\ value.k = "d"

\* for key, value in updates.items(): ...
MergeItems(h, result, updates, keys) ==
    IF keys = {}
    THEN [h |-> h, exc |-> "none", a |-> result]
    ELSE LET key == CHOOSE x \in keys : TRUE
             value == h[updates][key]
         IN  IF MergeRecurses(h, result, key, value)
             THEN LET m == MergeConfigs(h, h[result][key].a, value)
                  IN  MergeItems(SetItem(m.h, result, key, Ref(m.a)),
                                 result, updates, keys \ {key})
             ELSE MergeItems(SetItem(h, result, key, value),
                             result, updates, keys \ {key})

\* a merge that returns the override tree as it is
MergeReturnsUpdates(h, base, updates) ==
    [h |-> h, exc |-> IF updates.k = "d" THEN "none" ELSE "AttributeError",
     a |-> updates.a]

\* base: address of a dict; updates: a heap value.  updates.items() raises
\* AttributeError when updates is not a dict (after base.copy()).
MergeConfigs(h, base, updates) ==
    LET c == DictCopy(h, base)
    IN  IF updates.k # "d"
        THEN [h |-> c.h, exc |-> "AttributeError", a |-> 0]
        ELSE MergeItems(c.h, c.a, updates.a, DOMAIN h[updates.a])

-----------------------------------------------------------------------------
(* _merge_configs applied to literal trees *)

MKeys == {"a", "b"}
MScalars == {"x", "[l]"}

\* all mappings from a subset of MKeys to values of V
DictsOver(V) ==
    UNION { { PD(f) : f \in [K -> V] } : K \in SUBSET MKeys }

MLeaves == { PS(s) : s \in MScalars }
MTrees1 == DictsOver(MLeaves)
MTrees2 == DictsOver(MLeaves \cup MTrees1)
MTrees3 == { PD("a" :> t) : t \in MTrees2 }
MTrees == MTrees2 \cup MTrees3

MNone == PS("unset")

MergeInit ==
    /\ mA \in MTrees
    /\ mB \in MTrees
    /\ mR = MNone

\* _merge_configs(A, B) on freshly built objects
MergeApply ==
    /\ mR = MNone
    /\ LET a == Alloc(<<>>, mA)
           b == Alloc(a.h, mB)
           m == MergeConfigs(b.h, a.v.a, b.v)
       IN  mR' = Deref(m.h, Ref(m.a))
    /\ UNCHANGED <<mA, mB>>

-----------------------------------------------------------------------------
(* File system and JSON *)

\* app_const.DEFAULT_CONFIG_DIR, app_const.DEFAULT_CONFIG_FILENAME
DEFAULT_CONFIG_DIR == "config"
DEFAULT_CONFIG_FILENAME == "pyapp-base_config.json"

NoArg == "None"

\* a handler that catches only the JSON parse error
IsJsonError(e) == e = "JSONDecodeError"

\* Exception and its subclasses (what `except Exception` catches)
IsException(e) ==
    e \in {"PermissionError", "FileNotFoundError", "JSONDecodeError",
           "AttributeError", "TypeError", "KeyError"}

\* the states of the file at config_file
Absent == [st |-> "absent", tree |-> NoneV]
Unreadable == [st |-> "unreadable", tree |-> NoneV]
BadJson == [st |-> "badjson", tree |-> NoneV]
Holding(tree) == [st |-> "ok", tree |-> tree]

\* a save that makes the directory and reports success without writing
SaveWritesNothing(h, cfg, self_config, cdir, cfile, f, ds) ==
    [exc |-> "none", file |-> f, dirs |-> ds \cup {cdir}]

\* AppConfig.save_config
\* config is the argument (0 for None); self_config is self.config.
\* Returns the exception raised, the file and the directories afterwards.
SaveConfig(h, cfg, self_config, cdir, cfile, f, ds) ==
    LET config_to_save == IF cfg # 0 /\ DOMAIN h[cfg] # {} THEN cfg ELSE self_config
        made == ds \cup {cdir}
    IN  IF cfile.dir \notin made
        THEN [exc |-> "FileNotFoundError", file |-> f, dirs |-> made]
        ELSE IF f.st = "unreadable"
        THEN [exc |-> "PermissionError", file |-> f, dirs |-> made]
        ELSE [exc |-> "none",
              file |-> Holding(Deref(h, Ref(config_to_save))),
              dirs |-> made]

\* AppConfig.load_config, the body of the try block
LoadTry(h, dflt, cdir, cfile, create, f, ds) ==
    IF f.st # "absent"
    THEN IF f.st = "unreadable"
         THEN [exc |-> "PermissionError", h |-> h, a |-> 0, file |-> f, dirs |-> ds]
         ELSE IF f.st = "badjson"
         THEN [exc |-> "JSONDecodeError", h |-> h, a |-> 0, file |-> f, dirs |-> ds]
         ELSE LET c == Alloc(h, f.tree)
                  m == MergeConfigs(c.h, dflt, c.v)
              IN  [exc |-> m.exc, h |-> m.h, a |-> m.a, file |-> f, dirs |-> ds]
    ELSE IF create
         THEN LET s == SaveConfig(h, dflt, 0, cdir, cfile, f, ds)
                  c == DictCopy(h, dflt)
              IN  IF s.exc # "none"
                  THEN [exc |-> s.exc, h |-> h, a |-> 0, file |-> s.file, dirs |-> s.dirs]
                  ELSE [exc |-> "none", h |-> c.h, a |-> c.a, file |-> s.file, dirs |-> s.dirs]
         ELSE LET c == DictCopy(h, dflt)
              IN  [exc |-> "none", h |-> c.h, a |-> c.a, file |-> f, dirs |-> ds]

\* AppConfig.load_config
LoadConfig(h, dflt, cdir, cfile, create, f, ds) ==
    LET t == LoadTry(h, dflt, cdir, cfile, create, f, ds)
        c == DictCopy(t.h, dflt)
    IN  IF t.exc # "none" /\ IsException(t.exc)
        THEN [exc |-> "none", h |-> c.h, a |-> c.a, file |-> t.file, dirs |-> t.dirs]
        ELSE t

-----------------------------------------------------------------------------
(* Dotted key paths *)

\* A key path is written as its sequence of components and dots:
\* "logging.level" is <<"logging", ".", "level">>, "" is <<>>.
RECURSIVE SplitFrom(_, _)
SplitFrom(kp, cur) ==
    IF kp = <<>>
    THEN <<cur>>
    ELSE IF Head(kp) = "."
         THEN <<cur>> \o SplitFrom(Tail(kp), "")
         ELSE SplitFrom(Tail(kp), Head(kp))

\* key_path.split('.')
Split(kp) == SplitFrom(kp, "")

\* value[key]: the exception raised ("none" if none) and the value read.
\* Indexing a str, number, bool, None or list with a str key is a TypeError.
GetItem(h, value, key) ==
    IF value.k # "d"
    THEN [exc |-> "TypeError", v |-> value]
    ELSE IF key \notin DOMAIN h[value.a]
         THEN [exc |-> "KeyError", v |-> value]
         ELSE [exc |-> "none", v |-> h[value.a][key]]

RECURSIVE GetWalk(_, _, _)
\* for key in keys: value = value[key]
GetWalk(h, value, keys) ==
    IF keys = <<>>
    THEN [exc |-> "none", v |-> value]
    ELSE LET r == GetItem(h, value, Head(keys))
         IN  IF r.exc # "none" THEN r ELSE GetWalk(h, r.v, Tail(keys))

\* a handler that catches only KeyError
GetCatchesKeyError(e) == e = "KeyError"

\* except (KeyError, TypeError)
GetCatches(e) == e \in {"KeyError", "TypeError"}

\* AppConfig.get: the exception that leaves get and the value returned
Get(h, cfg, key_path, default) ==
    LET r == GetWalk(h, Ref(cfg), Split(key_path))
    IN  IF r.exc = "none"
        THEN [exc |-> "none", ret |-> r.v]
        ELSE IF GetCatches(r.exc)
             THEN [exc |-> "none", ret |-> default]
             ELSE [exc |-> r.exc, ret |-> default]

\* `key not in config` followed by `config[key] = {}` or `config = config[key]`
\* on a value that is not a dict: every outcome is a TypeError
\* (str: the assignment or the index; number, bool, None: the `in`; list: the index)
RECURSIVE SetWalk(_, _, _, _)
\* for key in keys[:-1]: ... ; config[keys[-1]] = value
SetWalk(h, cur, keys, value) ==
    IF cur.k # "d"
    THEN [exc |-> "TypeError", h |-> h]
    ELSE IF Len(keys) = 1
         THEN [exc |-> "none", h |-> SetItem(h, cur.a, keys[1], value)]
         ELSE LET key == Head(keys)
              IN  IF key \notin DOMAIN h[cur.a]
                  THEN LET h1 == Append(h, <<>>)
                           h2 == SetItem(h1, cur.a, key, Ref(Len(h1)))
                       IN  SetWalk(h2, Ref(Len(h1)), Tail(keys), value)
                  ELSE SetWalk(h, h[cur.a][key], Tail(keys), value)

\* a set that stores under the last key of the path at the top level
SetFlat(h, cfg, key_path, value) ==
    LET keys == Split(key_path)
    IN  [exc |-> "none", h |-> SetItem(h, cfg, keys[Len(keys)], value)]

\* AppConfig.set
Set(h, cfg, key_path, value) == SetWalk(h, Ref(cfg), Split(key_path), value)

-----------------------------------------------------------------------------
(* Inputs *)

FileLevelError == PD([logging |-> PD([level |-> PS("ERROR")])])
FileShadow == PD([logging |-> PS("off"), extra |-> PD([k |-> PS("v")])])
FileDeeper == PD([logging |-> PD([level |-> PD([x |-> PS("1")])]), app |-> EmptyDict])

FileInputs ==
    {Absent, Unreadable, BadJson, Holding(PS("[1,2]")), Holding(NoneV),
     Holding(EmptyDict), Holding(FileLevelError), Holding(FileShadow),
     Holding(FileDeeper)}

ConfigFileArgs == {NoArg, "other/my.json", "my.json"}
ConfigDirArgs == {NoArg, "cfgdir"}

\* Path(config_file): its directory and name
PathOf(arg) ==
    IF arg = "other/my.json" THEN [dir |-> "other", name |-> "my.json"]
    ELSE [dir |-> ".", name |-> arg]

PathInputs ==
    {<<"logging", ".", "level">>, <<"app", ".", "debug_mode">>, <<"logging">>,
     <<"extra", ".", "k">>, <<"logging", ".", "level", ".", "x">>,
     <<"new", ".", ".", "z">>}

SetValues == {PS("ERROR"), EmptyDict}

UpdateInputs ==
    {PD([logging |-> PD([level |-> PS("DEBUG")])]),
     PD([app |-> PS("off"), extra |-> PD([k |-> PS("w")])]),
     PS("[1,2]")}

GetDefault == Scalar("<default>")

-----------------------------------------------------------------------------
(* AppConfig *)

NoCall == [op |-> "none", exc |-> "none", p |-> <<>>, v |-> NoneV, ret |-> NoneV]
Call(op, exc, p, v, ret) == [op |-> op, exc |-> exc, p |-> p, v |-> v, ret |-> ret]

\* the value of the tree at address a, None before construction
TreeAt(h, a) == IF a = 0 THEN NoneV ELSE Deref(h, Ref(a))

Snapshot == [file |-> file, dirs |-> dirs,
             cfg |-> TreeAt(heap, config), dflt |-> TreeAt(heap, default_config)]

\* AppConfig.__init__, the attributes set from the arguments, for a file
\* found in one of the states of files
ConfigInitOver(files, cds, cfs) ==
    /\ \E cd \in cds, cf \in cfs :
          /\ config_dir = IF cd # NoArg THEN cd ELSE DEFAULT_CONFIG_DIR
          /\ config_file = IF cf # NoArg THEN PathOf(cf)
                           ELSE [dir |-> config_dir, name |-> DEFAULT_CONFIG_FILENAME]
    /\ create_if_not_exists \in BOOLEAN
    /\ file \in files
    /\ \E X \in SUBSET {config_dir, config_file.dir} : dirs = {"."} \cup X
    /\ file.st # "absent" => config_file.dir \in dirs
    /\ heap = <<>>
    /\ default_config = 0
    /\ config = 0
    /\ last = NoCall
    /\ pre = [file |-> file, dirs |-> dirs, cfg |-> NoneV, dflt |-> NoneV]
    /\ nops = 0

\* AppConfig.__init__: self.default_config = {...}; self.config = self.load_config()
Construct ==
    /\ default_config = 0
    /\ LET d == Alloc(heap, DefaultTree)
           l == LoadConfig(d.h, d.v.a, config_dir, config_file,
                           create_if_not_exists, file, dirs)
       IN  /\ heap' = l.h
           /\ default_config' = d.v.a
           /\ config' = l.a
           /\ file' = l.file
           /\ dirs' = l.dirs
           /\ last' = Call("init", l.exc, <<>>, NoneV, NoneV)
    /\ pre' = Snapshot
    /\ UNCHANGED <<config_dir, config_file, create_if_not_exists, nops>>

Ready == config # 0 /\ nops < MaxOps

\* a later call of load_config(): the result is returned, self.config stays
Load ==
    /\ Ready
    /\ LET l == LoadConfig(heap, default_config, config_dir, config_file,
                           create_if_not_exists, file, dirs)
       IN  /\ heap' = l.h
           /\ file' = l.file
           /\ dirs' = l.dirs
           /\ last' = Call("load", l.exc, <<>>, NoneV, TreeAt(l.h, l.a))
    /\ pre' = Snapshot
    /\ nops' = nops + 1
    /\ UNCHANGED <<default_config, config, config_dir, config_file, create_if_not_exists>>

\* save_config()
Save ==
    /\ Ready
    /\ LET s == SaveConfig(heap, 0, config, config_dir, config_file, file, dirs)
       IN  /\ file' = s.file
           /\ dirs' = s.dirs
           /\ last' = Call("save", s.exc, <<>>, NoneV, NoneV)
    /\ pre' = Snapshot
    /\ nops' = nops + 1
    /\ UNCHANGED <<heap, default_config, config, config_dir, config_file,
                   create_if_not_exists>>

\* get(key_path, default)
GetCall ==
    /\ Ready
    /\ \E p \in PathInputs :
          LET g == Get(heap, config, p, GetDefault)
          IN  last' = Call("get", g.exc, p, NoneV, Deref(heap, g.ret))
    /\ pre' = Snapshot
    /\ nops' = nops + 1
    /\ UNCHANGED <<heap, default_config, config, config_dir, config_file,
                   create_if_not_exists, file, dirs>>

\* set(key_path, value)
SetCall ==
    /\ Ready
    /\ \E p \in PathInputs, v \in SetValues :
          LET al == Alloc(heap, v)
              w == Set(al.h, config, p, al.v)
          IN  /\ heap' = w.h
              /\ last' = Call("set", w.exc, p, v, NoneV)
    /\ pre' = Snapshot
    /\ nops' = nops + 1
    /\ UNCHANGED <<default_config, config, config_dir, config_file,
                   create_if_not_exists, file, dirs>>

\* update(updates)
Update ==
    /\ Ready
    /\ \E u \in UpdateInputs :
          LET al == Alloc(heap, u)
              m == MergeConfigs(al.h, config, al.v)
          IN  /\ heap' = m.h
              /\ config' = IF m.exc = "none" THEN m.a ELSE config
              /\ last' = Call("update", m.exc, <<>>, u, NoneV)
    /\ pre' = Snapshot
    /\ nops' = nops + 1
    /\ UNCHANGED <<default_config, config_dir, config_file,
                   create_if_not_exists, file, dirs>>

\* reset_to_default()
ResetToDefault ==
    /\ Ready
    /\ LET c == DictCopy(heap, default_config)
           s == SaveConfig(c.h, 0, c.a, config_dir, config_file, file, dirs)
       IN  /\ heap' = c.h
           /\ config' = c.a
           /\ file' = s.file
           /\ dirs' = s.dirs
           /\ last' = Call("reset", s.exc, <<>>, NoneV, NoneV)
    /\ pre' = Snapshot
    /\ nops' = nops + 1
    /\ UNCHANGED <<default_config, config_dir, config_file, create_if_not_exists>>

\* get_config_dict(): return self.config.copy()
GetConfigDict ==
    /\ Ready
    /\ LET c == DictCopy(heap, config)
       IN  /\ heap' = c.h
           /\ last' = Call("get_config_dict", "none", <<>>, NoneV, TreeAt(c.h, c.a))
    /\ pre' = Snapshot
    /\ nops' = nops + 1
    /\ UNCHANGED <<default_config, config, config_dir, config_file,
                   create_if_not_exists, file, dirs>>

-----------------------------------------------------------------------------
(* The module-level configuration manager *)

\* the key paths and values given to get_config and set_config
ManagerPaths ==
    {<<"logging", ".", "level">>, <<"logging">>, <<"extra", ".", "k">>,
     <<"logging", ".", "level", ".", "x">>}

ManagerValues == {PS("ERROR"), EmptyDict}

\* the config_file the AppConfig made from argument cf has
ConfigFileOf(cf) ==
    IF cf # NoArg THEN PathOf(cf)
    ELSE [dir |-> DEFAULT_CONFIG_DIR, name |-> DEFAULT_CONFIG_FILENAME]

\* a test that is true of every manager
AlwaysNone(m) == TRUE

\* `_config_manager is None`
ManagerIsNone(m) == m = 0

\* get_config_manager(config_file): the instance returned and the state of
\* the process afterwards.  AppConfig(config_file=config_file) is made only
\* when _config_manager is None; config_file is not looked at otherwise.
GetConfigManager(cf) ==
    IF ManagerIsNone(config_manager)
    THEN LET d == Alloc(heap, DefaultTree)
             l == LoadConfig(d.h, d.v.a, DEFAULT_CONFIG_DIR, ConfigFileOf(cf),
                             TRUE, file, dirs)
         IN  [exc |-> l.exc, h |-> l.h, dflt |-> d.v.a, cfg |-> l.a,
              file |-> l.file, dirs |-> l.dirs, cfile |-> ConfigFileOf(cf),
              m |-> IF l.exc = "none" THEN instances + 1 ELSE config_manager,
              n |-> instances + 1]
    ELSE [exc |-> "none", h |-> heap, dflt |-> default_config, cfg |-> config,
          file |-> file, dirs |-> dirs, cfile |-> config_file,
          m |-> config_manager, n |-> instances]

\* the first AppConfig is made on the file the model starts with
OnModelledFile(cf) == config_manager = 0 => ConfigFileOf(cf) = config_file

ManagerReady == nops < MaxCalls

\* key path p is a prefix of key path q, or q of p
Related(p, q) ==
    LET a == Split(p)
        b == Split(q)
    IN  \/ Len(a) <= Len(b) /\ SubSeq(b, 1, Len(a)) = a
        \/ Len(b) <= Len(a) /\ SubSeq(a, 1, Len(b)) = b

\* get_config_manager(config_file)
GetConfigManagerCall ==
    /\ ManagerReady
    /\ \E cf \in ConfigFileArgs :
          /\ OnModelledFile(cf)
          /\ \E g \in {GetConfigManager(cf)} :
                 /\ heap' = g.h
                 /\ default_config' = g.dflt
                 /\ config' = g.cfg
                 /\ file' = g.file
                 /\ dirs' = g.dirs
                 /\ config_manager' = g.m
                 /\ instances' = g.n
                 /\ written' = IF g.n = instances THEN written ELSE {}
                 /\ last' = Call("get_config_manager", g.exc, <<>>, Scalar(cf), NoneV)
    /\ pre' = Snapshot
    /\ nops' = nops + 1
    /\ UNCHANGED <<config_dir, config_file, create_if_not_exists>>

\* get_config(key_path, default): get_config_manager().get(key_path, default)
GetConfigCall ==
    /\ ManagerReady
    /\ OnModelledFile(NoArg)
    /\ \E p \in ManagerPaths, g \in {GetConfigManager(NoArg)} :
          LET r == Get(g.h, g.cfg, p, GetDefault)
          IN  /\ heap' = g.h
              /\ default_config' = g.dflt
              /\ config' = g.cfg
              /\ file' = g.file
              /\ dirs' = g.dirs
              /\ config_manager' = g.m
              /\ instances' = g.n
              /\ written' = IF g.n = instances THEN written ELSE {}
              /\ last' = IF g.exc # "none"
                         THEN Call("get_config", g.exc, p, NoneV, NoneV)
                         ELSE Call("get_config", r.exc, p, NoneV, Deref(g.h, r.ret))
    /\ pre' = Snapshot
    /\ nops' = nops + 1
    /\ UNCHANGED <<config_dir, config_file, create_if_not_exists>>

\* set_config(key_path, value): get_config_manager().set(key_path, value)
SetConfigCall ==
    /\ ManagerReady
    /\ OnModelledFile(NoArg)
    /\ \E p \in ManagerPaths, v \in ManagerValues, g \in {GetConfigManager(NoArg)} :
          LET al == Alloc(g.h, v)
              w == Set(al.h, g.cfg, p, al.v)
              kept == IF g.n = instances THEN written ELSE {}
          IN  /\ heap' = IF g.exc # "none" THEN g.h ELSE w.h
              /\ default_config' = g.dflt
              /\ config' = g.cfg
              /\ file' = g.file
              /\ dirs' = g.dirs
              /\ config_manager' = g.m
              /\ instances' = g.n
              /\ written' = IF g.exc = "none" /\ w.exc = "none"
                            THEN {e \in kept : ~Related(e[1], p)} \cup {<<p, v>>}
                            ELSE kept
              /\ last' = Call("set_config", IF g.exc # "none" THEN g.exc ELSE w.exc,
                              p, v, NoneV)
    /\ pre' = Snapshot
    /\ nops' = nops + 1
    /\ UNCHANGED <<config_dir, config_file, create_if_not_exists>>

\* save_config(): get_config_manager().save_config()
SaveConfigCall ==
    /\ ManagerReady
    /\ OnModelledFile(NoArg)
    /\ \E g \in {GetConfigManager(NoArg)} :
       LET s == SaveConfig(g.h, 0, g.cfg, DEFAULT_CONFIG_DIR, g.cfile, g.file, g.dirs)
       IN  /\ heap' = g.h
           /\ default_config' = g.dflt
           /\ config' = g.cfg
           /\ file' = IF g.exc # "none" THEN g.file ELSE s.file
           /\ dirs' = IF g.exc # "none" THEN g.dirs ELSE s.dirs
           /\ config_manager' = g.m
           /\ instances' = g.n
           /\ written' = IF g.n = instances THEN written ELSE {}
           /\ last' = Call("save_config", IF g.exc # "none" THEN g.exc ELSE s.exc,
                           <<>>, NoneV, NoneV)
    /\ pre' = Snapshot
    /\ nops' = nops + 1
    /\ UNCHANGED <<config_dir, config_file, create_if_not_exists>>

ManagerIdle == config_manager = 0 /\ instances = 0 /\ written = {}

-----------------------------------------------------------------------------
(* Exceptions of app_exceptions.py *)

Exc(type, code) == [type |-> type, code |-> code]
NoExc == Exc("none", "")
NoCode == "None"

\* AppBaseException.__init__(message, error_code, details, cause): the
\* keywords the signature accepts
AppBaseExceptionAccepts(kwargs) == kwargs \subseteq {"error_code", "details", "cause"}

\* ValidationError(message, **kwargs), FileOperationError(message, **kwargs):
\* the keywords go to AppBaseException.__init__; a keyword it does not accept
\* is a TypeError raised in place of the error under construction
NewError(cls, code, kwargs) ==
    IF AppBaseExceptionAccepts(kwargs) THEN Exc(cls, code) ELSE Exc("TypeError", "")

\* raise cls(message, error_code=code, context={...}) as app_validation.py writes it
Failure(cls, code) == NewError(cls, code, {"error_code", "context"})

\* the first exception raised by a sequence of steps
RECURSIVE FirstRaised(_)
FirstRaised(steps) ==
    IF steps = <<>> THEN NoExc
    ELSE IF Head(steps) # NoExc THEN Head(steps)
    ELSE FirstRaised(Tail(steps))

-----------------------------------------------------------------------------
(* Paths and app_validation.py *)

\* a path string: relative to the working directory or absolute
Rel(name) == [abs |-> FALSE, name |-> name]
NoPath == Rel("")
\* Path(p).resolve()
Resolve(p) == [abs |-> TRUE, name |-> p.name]

\* the kinds of a path: a file, a directory, a directory without write
\* permission, absent, absent below a directory without write permission
\* ("noperm"), absent below a path component that is a file ("blocked")
Exists(f, p) == f[p.name] \in {"file", "dir", "rodir"}
IsFile(f, p) == f[p.name] = "file"
IsDir(f, p) == f[p.name] \in {"dir", "rodir"}
Writable(f, p) == f[p.name] # "rodir"

\* validate_file_exists
validate_file_exists(f, p) ==
    IF ~Exists(f, p) THEN Failure("FileOperationError", "FILE_NOT_FOUND")
    ELSE IF ~IsFile(f, p) THEN Failure("FileOperationError", "NOT_A_FILE")
    ELSE NoExc

\* validate_file_or_directory_exists
validate_file_or_directory_exists(f, p) ==
    IF ~Exists(f, p) THEN Failure("FileOperationError", "PATH_NOT_FOUND")
    ELSE NoExc

\* path.mkdir(parents=True, exist_ok=True) on an absent path: the exception
\* and the file system afterwards
Mkdir(f, p) ==
    IF f[p.name] = "noperm" THEN [exc |-> Exc("PermissionError", ""), fs |-> f]
    ELSE IF f[p.name] = "blocked" THEN [exc |-> Exc("OSError", ""), fs |-> f]
    ELSE [exc |-> NoExc, fs |-> [f EXCEPT ![p.name] = "dir"]]

\* a directory check that creates the directory whatever create_if_missing says
AlwaysCreates(create_if_missing) == TRUE

\* `if create_if_missing:`
CreatesMissing(create_if_missing) == create_if_missing

\* validate_writable_directory: the exception and the file system afterwards
validate_writable_directory(f, p, create_if_missing) ==
    LET creates == ~Exists(f, p) /\ CreatesMissing(create_if_missing)
        mk == Mkdir(f, p)
        made == IF creates THEN mk.fs ELSE f
    IN  IF ~Exists(f, p) /\ ~creates
        THEN [exc |-> Failure("FileOperationError", "DIRECTORY_NOT_FOUND"), fs |-> f]
        ELSE IF creates /\ mk.exc.type = "PermissionError"
        THEN [exc |-> Failure("FileOperationError", "PERMISSION_DENIED"), fs |-> made]
        ELSE IF creates /\ mk.exc.type = "OSError"
        THEN [exc |-> Failure("FileOperationError", "DIRECTORY_CREATION_ERROR"), fs |-> made]
        ELSE IF ~IsDir(made, p)
        THEN [exc |-> Failure("FileOperationError", "NOT_A_DIRECTORY"), fs |-> made]
        ELSE IF ~Writable(made, p)
        THEN [exc |-> Failure("FileOperationError", "PERMISSION_DENIED"), fs |-> made]
        ELSE [exc |-> NoExc, fs |-> made]

\* a Python value given to a check: a bool, None, or a tuple, list or str by
\* its items (a str by its characters)
BoolV(b) == [t |-> "bool", b |-> b, items |-> <<>>]
TupleV(items) == [t |-> "tuple", b |-> FALSE, items |-> items]
ListV(items) == [t |-> "list", b |-> FALSE, items |-> items]
StrV(chars) == [t |-> "str", b |-> FALSE, items |-> chars]
NoneValue == [t |-> "none", b |-> FALSE, items |-> <<>>]
\* `if value`: None is false, a tuple, list or str is true when it is not empty
Truthy(v) ==
    IF v.t = "bool" THEN v.b
    ELSE IF v.t = "none" THEN FALSE
    ELSE Len(v.items) > 0

\* a test that takes only None as not given
IsNone(v) == v.t = "none"

\* `not value`
Falsy(v) == ~Truthy(v)

\* validate_conditional_required: `if condition and not value`
validate_conditional_required(condition, value) ==
    IF condition /\ Falsy(value)
    THEN Failure("ValidationError", "CONDITIONAL_REQUIRED_ERROR")
    ELSE NoExc

\* an optional number: None or a number
NoBound == [none |-> TRUE, n |-> 0]
Bound(n) == [none |-> FALSE, n |-> n]

\* a lower bound that the value must exceed
BelowOrAt(value, min_val) == ~min_val.none /\ value <= min_val.n

\* `min_val is not None and value < min_val`
Below(value, min_val) == ~min_val.none /\ value < min_val.n

\* `max_val is not None and value > max_val`
Above(value, max_val) == ~max_val.none /\ value > max_val.n

\* validate_range
validate_range(value, min_val, max_val) ==
    IF Below(value, min_val) THEN Failure("ValidationError", "MIN_VALUE_ERROR")
    ELSE IF Above(value, max_val) THEN Failure("ValidationError", "MAX_VALUE_ERROR")
    ELSE NoExc

\* the names argument: None or a list
NoNames == [none |-> TRUE, list |-> <<>>]
Names(list) == [none |-> FALSE, list |-> list]

\* names is None: one generated name per value
DefaultNames(args_values) == [i \in 1..Len(args_values) |-> "arg"]

Min(a, b) == IF a < b THEN a ELSE b

\* validate_mutually_exclusive(*args_values, names): zip pairs each positional
\* value with a name; the names of the true values are collected
validate_mutually_exclusive(args_values, names) ==
    LET given == IF names.none THEN DefaultNames(args_values) ELSE names.list
        n == Min(Len(args_values), Len(given))
        specified_args == { i \in 1..n : Truthy(args_values[i]) }
    IN  IF Cardinality(specified_args) > 1
        THEN Failure("ValidationError", "MUTUALLY_EXCLUSIVE_ARGS")
        ELSE NoExc

-----------------------------------------------------------------------------
(* AppArgParser *)

\* choices of --log-level and --mode
LogLevelChoices == {"DEBUG", "INFO", "WARNING", "ERROR", "CRITICAL"}
ModeChoices == {"analyze", "convert", "validate", "batch"}

\* the flags read by _post_process_args and _validate_dependencies that
\* _setup_arguments_common and _setup_arguments do not declare; an
\* application adds them to the parser
OptionalFlags == {"verbose", "quiet", "dry_run", "force"}

\* a command line, by the options it gives; version: --version is its first
\* argument
CommandLines ==
    [config : {NoPath, Rel("f"), Rel("m")},
     log_level : LogLevelChoices,
     debug : BOOLEAN,
     mode : ModeChoices,
     input : {<<>>, <<Rel("f")>>, <<Rel("d"), Rel("m")>>},
     output : {NoPath, Rel("d"), Rel("m")},
     verbose : 0..MaxVerbose,
     quiet : BOOLEAN,
     dry_run : BOOLEAN,
     force : BOOLEAN,
     version : {FALSE}]
    \cup
    [config : {NoPath, Rel("f"), Rel("m")},
     log_level : {"INFO"},
     debug : BOOLEAN,
     mode : {"analyze", "convert"},
     input : {<<>>},
     output : {NoPath},
     verbose : {0, 1},
     quiet : BOOLEAN,
     dry_run : {FALSE},
     force : {FALSE},
     version : {TRUE}]

NoNamespace ==
    [config |-> NoPath, log_level |-> "", debug |-> FALSE, mode |-> "",
     input |-> <<>>, output |-> NoPath, verbose |-> 0, quiet |-> FALSE,
     dry_run |-> FALSE, force |-> FALSE, no_console |-> FALSE, has |-> {}]

\* self.parser.parse_args(args): the version action prints the version and
\* raises SystemExit(0) as soon as it is met; SystemExit(2) for an option the
\* parser does not declare; --config runs ValidateFileAction, whose handler
\* catches FileOperationError only; otherwise the Namespace with the defaults
ArgparseParse(argv, decl, f) ==
    LET given == {x \in OptionalFlags :
                     \/ x = "verbose" /\ argv.verbose > 0
                     \/ x = "quiet" /\ argv.quiet
                     \/ x = "dry_run" /\ argv.dry_run
                     \/ x = "force" /\ argv.force}
        checked == IF argv.config # NoPath THEN validate_file_exists(f, argv.config)
                   ELSE NoExc
        ns == [config |-> IF argv.config # NoPath THEN argv.config
                          ELSE Rel(DEFAULT_CONFIG_FILENAME),
               log_level |-> argv.log_level, debug |-> argv.debug,
               mode |-> argv.mode, input |-> argv.input, output |-> argv.output,
               verbose |-> argv.verbose, quiet |-> argv.quiet,
               dry_run |-> argv.dry_run, force |-> argv.force,
               no_console |-> FALSE, has |-> decl]
    IN  IF argv.version
        THEN [exc |-> Exc("SystemExit", "0"), ns |-> NoNamespace]
        ELSE IF ~(given \subseteq decl)
        THEN [exc |-> Exc("SystemExit", "2"), ns |-> NoNamespace]
        ELSE IF checked.type = "FileOperationError"
        THEN [exc |-> Exc("SystemExit", "2"), ns |-> NoNamespace]
        ELSE IF checked # NoExc
        THEN [exc |-> checked, ns |-> NoNamespace]
        ELSE [exc |-> NoExc, ns |-> ns]

\* args.<name> on a Namespace without the attribute
Lacks(ns, name) == name \notin ns.has

\* the level chosen by the if / elif chain on debug and verbose
LevelByDebugVerbose(ns) ==
    IF ns.debug THEN "DEBUG"
    ELSE IF ns.verbose >= 2 THEN "DEBUG"
    ELSE IF ns.verbose = 1 THEN "INFO"
    ELSE ns.log_level

\* AppArgParser._post_process_args
PostProcessArgs(ns) ==
    IF ~ns.debug /\ Lacks(ns, "verbose")
    THEN [exc |-> Exc("AttributeError", "verbose"), ns |-> ns]
    ELSE IF Lacks(ns, "quiet")
    THEN [exc |-> Exc("AttributeError", "quiet"), ns |-> ns]
    ELSE LET l == LevelByDebugVerbose(ns)
         IN  [exc |-> NoExc,
              ns |-> [ns EXCEPT
                        !.log_level = IF ns.quiet THEN "ERROR" ELSE l,
                        !.no_console = ns.quiet,
                        !.has = IF ns.quiet THEN @ \cup {"no_console"} ELSE @,
                        !.config = IF @ # NoPath THEN Resolve(@) ELSE @,
                        !.output = IF @ # NoPath THEN Resolve(@) ELSE @]]

\* a handler that lets every exception through
Reraise(e) == e

\* the handler of parse_args and validate_args:
\* except SystemExit as e: if e.code != 0: raise ValidationError(...); raise
OnSystemExit(e) ==
    IF e.type = "SystemExit" /\ e.code # "0"
    THEN NewError("ValidationError", NoCode, {})
    ELSE e

\* AppArgParser.parse_args
ParseArgs(argv, decl, f) ==
    LET parsed == ArgparseParse(argv, decl, f)
        post == PostProcessArgs(parsed.ns)
    IN  IF parsed.exc # NoExc
        THEN [exc |-> OnSystemExit(parsed.exc), ns |-> NoNamespace]
        ELSE IF post.exc # NoExc
        THEN [exc |-> OnSystemExit(post.exc), ns |-> NoNamespace]
        ELSE post

RECURSIVE InputsExist(_, _)
\* for input_path in args.input: validate_file_or_directory_exists(input_path, ...)
InputsExist(f, input) ==
    IF input = <<>> THEN NoExc
    ELSE LET e == validate_file_or_directory_exists(f, Head(input))
         IN  IF e # NoExc THEN e ELSE InputsExist(f, Tail(input))

\* the positional values of validate_mutually_exclusive((a, b), names=[...]):
\* the call gives one value, the tuple
ExclusiveCall(a, b) == <<TupleV(<<a, b>>)>>

\* args.output, args.config: None when the option is not given, else a str
PathValue(p) == IF p = NoPath THEN NoneValue ELSE StrV(<<p.name>>)

\* AppArgParser._validate_dependencies
ValidateDependencies(ns, f) ==
    FirstRaised(<<
        validate_conditional_required(ns.mode = "convert", PathValue(ns.output)),
        validate_conditional_required(ns.mode = "batch", ListV(ns.input)),
        InputsExist(f, ns.input),
        IF Lacks(ns, "quiet") THEN Exc("AttributeError", "quiet")
        ELSE IF Lacks(ns, "verbose") THEN Exc("AttributeError", "verbose")
        ELSE validate_mutually_exclusive(ExclusiveCall(ns.quiet, ns.verbose > 0),
                                         Names(<<"--quiet", "--verbose">>)),
        IF Lacks(ns, "dry_run") THEN Exc("AttributeError", "dry_run")
        ELSE IF Lacks(ns, "force") THEN Exc("AttributeError", "force")
        ELSE validate_mutually_exclusive(ExclusiveCall(ns.dry_run, ns.force),
                                         Names(<<"--dry-run", "--force">>)) >>)

\* AppArgParser._validate_file_paths (log_dir is not an attribute of the Namespace)
ValidateFilePaths(ns, f) ==
    FirstRaised(<<
        IF ns.config # Rel(DEFAULT_CONFIG_FILENAME)
        THEN validate_file_exists(f, ns.config) ELSE NoExc,
        IF ns.output # NoPath
        THEN validate_writable_directory(f, ns.output, FALSE).exc ELSE NoExc >>)

\* AppArgParser.validate_args
ValidateArgs(argv, decl, f) ==
    LET parsed == ParseArgs(argv, decl, f)
        e == IF parsed.exc # NoExc THEN parsed.exc
             ELSE FirstRaised(<<ValidateDependencies(parsed.ns, f),
                                ValidateFilePaths(parsed.ns, f)>>)
    IN  IF e # NoExc
        THEN [exc |-> OnSystemExit(e), ns |-> NoNamespace]
        ELSE [exc |-> NoExc, ns |-> parsed.ns]

\* no run of the package yet
NotRun == ""

NoCli == [call |-> "none", argv |-> NoNamespace, exc |-> NoExc, ret |-> NoNamespace]

ArgsInit ==
    /\ declared \in {{}, OptionalFlags}
    /\ \E k \in {"missing", "file"} :
          fs = [n \in {"f", "d", "m", DEFAULT_CONFIG_FILENAME} |->
                  IF n = "f" THEN "file"
                  ELSE IF n = "d" THEN "dir"
                  ELSE IF n = "m" THEN "missing"
                  ELSE k]
    /\ cli = NoCli
    /\ exit_code = NotRun

\* parser.parse_args(argv)
ParseArgsCall ==
    /\ cli.call = "none"
    /\ \E argv \in CommandLines :
          LET r == ParseArgs(argv, declared, fs)
          IN  cli' = [call |-> "parse_args", argv |-> argv, exc |-> r.exc, ret |-> r.ns]
    /\ UNCHANGED <<declared, fs, exit_code>>

\* parser.validate_args(argv)
ValidateArgsCall ==
    /\ cli.call = "none"
    /\ \E argv \in CommandLines :
          LET r == ValidateArgs(argv, declared, fs)
          IN  cli' = [call |-> "validate_args", argv |-> argv, exc |-> r.exc, ret |-> r.ns]
    /\ UNCHANGED <<declared, fs, exit_code>>

\* the names app_exceptions.py defines
AppExceptionsDefines ==
    {"AppBaseException", "ConfigurationError", "InvalidConfigurationError",
     "MissingConfigurationError", "ValidationError", "InvalidArgumentError",
     "InvalidFormatError", "ProcessingError", "TimeoutError",
     "ResourceNotFoundError", "FileOperationError", "FileNotFoundError",
     "FilePermissionError", "FileFormatError", "format_exception_info",
     "is_app_exception"}

\* app_argparser.py:
\* from .app_exceptions import ValidationError, FileOperationError, ConfigError
ImportAppArgparser ==
    LET names == {"ValidationError", "FileOperationError", "ConfigError"}
    IN  IF names \subseteq AppExceptionsDefines THEN NoExc
        ELSE Exc("ImportError", CHOOSE n \in names : n \notin AppExceptionsDefines)

\* main.py, the imports at the head of the module: `from . import app_argparser`
\* is the one that can fail
ImportMain == ImportAppArgparser

\* main(): prints the version, calls utils.util0_test(), returns 0; the
\* command line is not read
Main(argv) == "0"

\* python -m <package> argv, __main__.py: `from .main import main; main()`.
\* The value main returns is dropped; the status is 1 when an exception
\* leaves the module and 0 otherwise.
RunAsModule(argv) ==
    IF ImportMain # NoExc THEN "1"
    ELSE IF Main(argv) \in {"0", "1"} THEN "0" ELSE "1"

\* the package run as a module on a command line
RunModule ==
    /\ cli.call = "none"
    /\ \E argv \in CommandLines :
          /\ cli' = [call |-> "main", argv |-> argv, exc |-> NoExc, ret |-> NoNamespace]
          /\ exit_code' = RunAsModule(argv)
    /\ UNCHANGED <<declared, fs>>

ArgsIdle ==
    /\ declared = {}
    /\ fs = [n \in {"f", "d", "m", DEFAULT_CONFIG_FILENAME} |-> "missing"]
    /\ cli = NoCli
    /\ exit_code = NotRun

-----------------------------------------------------------------------------
(* The checks of app_validation.py called directly *)

RangeValues == (0 - 1)..MaxValue
RangeBounds == {NoBound} \cup { Bound(n) : n \in 0..MaxValue }

FlagValues == {BoolV(TRUE), BoolV(FALSE)}
FlagTuples == UNION { [1..n -> FlagValues] : n \in 0..MaxFlags }
NamesInputs == {NoNames} \cup { Names([i \in 1..n |-> "--flag"]) : n \in 0..MaxFlags }

RequiredValues ==
    {NoneValue, StrV(<<>>), StrV(<<"o">>), ListV(<<>>), ListV(<<StrV(<<"i">>)>>),
     BoolV(FALSE), BoolV(TRUE)}

PathKinds == {"file", "dir", "rodir", "missing", "noperm", "blocked"}
CheckPaths == {Rel("p"), Rel("q")}

NoCheck ==
    [fn |-> "none", value |-> 0, min_val |-> NoBound, max_val |-> NoBound,
     values |-> <<>>, names |-> NoNames, condition |-> FALSE,
     required |-> NoneValue, path |-> NoPath, create_if_missing |-> FALSE,
     exc |-> NoExc, before |-> <<>>]

ChecksInit ==
    /\ fs \in [{"p", "q"} -> PathKinds]
    /\ chk = NoCheck
    /\ declared = {}
    /\ cli = NoCli
    /\ exit_code = NotRun

\* validate_range(value, min_val, max_val)
CheckRange ==
    /\ \E v \in RangeValues, lo \in RangeBounds, hi \in RangeBounds :
          chk' = [NoCheck EXCEPT !.fn = "validate_range", !.value = v,
                                 !.min_val = lo, !.max_val = hi,
                                 !.exc = validate_range(v, lo, hi),
                                 !.before = fs]
    /\ UNCHANGED fs

\* validate_mutually_exclusive(*values, names=names)
CheckExclusive ==
    /\ \E vs \in FlagTuples, ns \in NamesInputs :
          chk' = [NoCheck EXCEPT !.fn = "validate_mutually_exclusive",
                                 !.values = vs, !.names = ns,
                                 !.exc = validate_mutually_exclusive(vs, ns),
                                 !.before = fs]
    /\ UNCHANGED fs

\* validate_conditional_required(condition, value, ...)
CheckConditional ==
    /\ \E c \in BOOLEAN, v \in RequiredValues :
          chk' = [NoCheck EXCEPT !.fn = "validate_conditional_required",
                                 !.condition = c, !.required = v,
                                 !.exc = validate_conditional_required(c, v),
                                 !.before = fs]
    /\ UNCHANGED fs

\* validate_file_exists(path)
CheckFileExists ==
    /\ \E p \in CheckPaths :
          chk' = [NoCheck EXCEPT !.fn = "validate_file_exists", !.path = p,
                                 !.exc = validate_file_exists(fs, p),
                                 !.before = fs]
    /\ UNCHANGED fs

\* validate_file_or_directory_exists(path)
CheckPathExists ==
    /\ \E p \in CheckPaths :
          chk' = [NoCheck EXCEPT !.fn = "validate_file_or_directory_exists",
                                 !.path = p,
                                 !.exc = validate_file_or_directory_exists(fs, p),
                                 !.before = fs]
    /\ UNCHANGED fs

\* validate_writable_directory(path, create_if_missing=c)
CheckWritableDirectory ==
    \E p \in CheckPaths, c \in BOOLEAN :
        LET r == validate_writable_directory(fs, p, c)
        IN  /\ chk' = [NoCheck EXCEPT !.fn = "validate_writable_directory",
                                      !.path = p, !.create_if_missing = c,
                                      !.exc = r.exc, !.before = fs]
            /\ fs' = r.fs

ChecksIdle == chk = NoCheck

-----------------------------------------------------------------------------
(* app_logger.py *)

\* the names app_const.py defines
AppConstDefines ==
    {"APP_NAME_FULL", "APP_NAME_SHORT", "APP_NAME", "APP_VERSION",
     "APP_VERSION_DATE", "APP_DESCRIPTION", "DEFAULT_CONFIG_DIR",
     "DEFAULT_JSON_FILENAME", "DEFAULT_INI_FILENAME", "DEFAULT_YAML_FILENAME",
     "DEFAULT_TOML_FILENAME", "DEFAULT_CONFIG_FILENAME", "AppEnum"}

\* app_const.<name>: AttributeError when the module has no such name
AppConstLacks(name) == name \notin AppConstDefines

\* level.upper() on the level strings the model gives
Upper(level) ==
    IF level = "debug" THEN "DEBUG"
    ELSE IF level = "warn" THEN "WARN"
    ELSE IF level = "basic_format" THEN "BASIC_FORMAT"
    ELSE IF level = "verbose" THEN "VERBOSE"
    ELSE level

\* the numeric levels of the logging module
LevelNo(name) ==
    IF name = "DEBUG" THEN 10
    ELSE IF name = "INFO" THEN 20
    ELSE IF name = "WARNING" THEN 30
    ELSE IF name = "ERROR" THEN 40
    ELSE IF name = "CRITICAL" THEN 50
    ELSE IF name = "WARN" THEN 30
    ELSE IF name = "FATAL" THEN 50
    ELSE 0

\* the attributes of the logging module with an upper-case name: the level
\* numbers, and BASIC_FORMAT, which is a str
LoggingAttrs ==
    {"CRITICAL", "DEBUG", "ERROR", "FATAL", "INFO", "NOTSET", "WARN", "WARNING",
     "BASIC_FORMAT"}

\* a test against the five documented level names
IsDocumentedLevel(level_upper) == level_upper \in LogLevelChoices

\* hasattr(logging, level_upper)
HasLevel(level_upper) == level_upper \in LoggingAttrs

\* logger.setLevel(getattr(logging, level_upper)) takes the value: an int is
\* a level, a str that is not a level name is a ValueError
SetLevelAccepts(level_upper) == level_upper # "BASIC_FORMAT"

Handler(kind, level) == [kind |-> kind, level |-> level]
NewLogger == [level |-> 0, handlers |-> <<>>, records |-> <<>>]
NoLogger == [set |-> FALSE, level |-> 0, enable_console |-> FALSE, enable_file |-> FALSE]

\* logger.warning(msg): the record is made when the logger is enabled for
\* WARNING and goes to the handlers whose level admits it
Warning(l, msg) ==
    IF LevelNo("WARNING") < l.level THEN l
    ELSE [l EXCEPT !.records =
            Append(@, [level |-> "WARNING", msg |-> msg,
                       to |-> { i \in 1..Len(l.handlers) :
                                  l.handlers[i].level <= LevelNo("WARNING") }])]

\* the try block of _setup_logger: mkdir of the log directory, then the
\* RotatingFileHandler opening the log file; OSError when either fails
FileHandlerFails(lfs) == lfs \in {"mkdir_fails", "open_fails"}

\* `if self.enable_console:` in the handler of OSError
FallsBack(enable_console) == enable_console

\* AppLogger._setup_logger: the exception, the logger and the files afterwards
SetupLogger(l, level, enable_console, enable_file, lfs) ==
    LET cleared == [l EXCEPT !.level = level, !.handlers = <<>>]
        console == IF enable_console
                   THEN [cleared EXCEPT !.handlers = Append(@, Handler("console", level))]
                   ELSE cleared
    IN  IF AppConstLacks("DEFAULT_LOG_FORMAT")
        THEN [exc |-> Exc("AttributeError", "DEFAULT_LOG_FORMAT"),
              logger |-> cleared, logfs |-> lfs]
        ELSE IF AppConstLacks("DEFAULT_DATE_FORMAT")
        THEN [exc |-> Exc("AttributeError", "DEFAULT_DATE_FORMAT"),
              logger |-> cleared, logfs |-> lfs]
        ELSE IF ~enable_file
        THEN [exc |-> NoExc, logger |-> console, logfs |-> lfs]
        ELSE IF FileHandlerFails(lfs)
        THEN IF FallsBack(enable_console)
             THEN [exc |-> NoExc,
                   logger |-> Warning(console, "Failed to create file handler"),
                   logfs |-> lfs]
             ELSE [exc |-> Exc("OSError", ""), logger |-> console, logfs |-> lfs]
        ELSE [exc |-> NoExc,
              logger |-> [console EXCEPT !.handlers = Append(@, Handler("file", level))],
              logfs |-> "present"]

\* AppLogger.__init__: the exception, the instance, the logger and the files
AppLoggerInit(l, level, log_dir, log_filename, enable_console, enable_file, lfs) ==
    LET failed(e) == [exc |-> e, inst |-> NoLogger, logger |-> l, logfs |-> lfs]
        r == SetupLogger(l, LevelNo(Upper(level)), enable_console, enable_file, lfs)
    IN  IF ~HasLevel(Upper(level)) THEN failed(Exc("ValueError", ""))
        ELSE IF log_dir = NoArg /\ AppConstLacks("DEFAULT_LOG_DIR")
        THEN failed(Exc("AttributeError", "DEFAULT_LOG_DIR"))
        ELSE IF log_filename = NoArg /\ AppConstLacks("DEFAULT_LOG_FILENAME")
        THEN failed(Exc("AttributeError", "DEFAULT_LOG_FILENAME"))
        ELSE IF ~SetLevelAccepts(Upper(level))
        THEN failed(Exc("ValueError", "setLevel"))
        ELSE [exc |-> r.exc,
              inst |-> IF r.exc # NoExc THEN NoLogger
                       ELSE [set |-> TRUE, level |-> LevelNo(Upper(level)),
                             enable_console |-> enable_console,
                             enable_file |-> enable_file],
              logger |-> r.logger, logfs |-> r.logfs]

\* AppLogger.set_level: the exception, the instance and the logger afterwards.
\* self.level is assigned before self.logger.setLevel is called.
SetLevel(inst, l, level) ==
    LET up == Upper(level)
        assigned == [inst EXCEPT !.level = LevelNo(up)]
    IN  IF ~HasLevel(up)
        THEN [exc |-> Exc("ValueError", ""), inst |-> inst, logger |-> l]
        ELSE IF ~SetLevelAccepts(up)
        THEN [exc |-> Exc("ValueError", "setLevel"), inst |-> assigned, logger |-> l]
        ELSE [exc |-> NoExc, inst |-> assigned,
              logger |-> [l EXCEPT
                            !.level = LevelNo(up),
                            !.handlers = [i \in 1..Len(l.handlers) |->
                                            Handler(l.handlers[i].kind, LevelNo(up))]]]

LevelInputs == {"debug", "INFO", "ERROR", "verbose", "warn", "basic_format"}
LogDirInputs == {NoArg, "logs"}
LogFilenameInputs == {NoArg, "app.log"}
LogFsInputs == {"absent", "present", "mkdir_fails", "open_fails"}

NoLg == [call |-> "none", level |-> "", log_dir |-> NoArg, log_filename |-> NoArg,
         enable_console |-> FALSE, enable_file |-> FALSE, exc |-> NoExc,
         before |-> "", was |-> NewLogger]

LoggerInit ==
    /\ logger = NewLogger
    /\ app_logger = NoLogger
    /\ logfs \in LogFsInputs
    /\ lg = NoLg

\* setup_logger(level, log_dir, log_filename, enable_console, enable_file):
\* _app_logger is assigned when AppLogger(...) returns
SetupLoggerCall ==
    \E level \in LevelInputs, d \in LogDirInputs, f \in LogFilenameInputs,
       c \in BOOLEAN, e \in BOOLEAN :
        LET r == AppLoggerInit(logger, level, d, f, c, e, logfs)
        IN  /\ logger' = r.logger
            /\ app_logger' = IF r.exc = NoExc THEN r.inst ELSE app_logger
            /\ logfs' = r.logfs
            /\ lg' = [call |-> "setup_logger", level |-> level, log_dir |-> d,
                      log_filename |-> f, enable_console |-> c, enable_file |-> e,
                      exc |-> r.exc, before |-> logfs, was |-> logger]

\* set_log_level(level): `if _app_logger is None: _app_logger = AppLogger()`,
\* then _app_logger.set_level(level)
SetLogLevelCall ==
    \E level \in LevelInputs :
        LET made == IF app_logger.set
                    THEN [exc |-> NoExc, inst |-> app_logger, logger |-> logger,
                          logfs |-> logfs]
                    ELSE AppLoggerInit(logger, "INFO", NoArg, NoArg, TRUE, TRUE, logfs)
            r == SetLevel(made.inst, made.logger, level)
            done == made.exc = NoExc
        IN  /\ logger' = IF done THEN r.logger ELSE made.logger
            /\ app_logger' = IF done THEN r.inst ELSE app_logger
            /\ logfs' = made.logfs
            /\ lg' = [NoLg EXCEPT !.call = "set_log_level", !.level = level,
                                  !.exc = IF done THEN r.exc ELSE made.exc,
                                  !.before = logfs, !.was = logger]

LoggerIdle ==
    /\ logger = NewLogger
    /\ app_logger = NoLogger
    /\ logfs = "absent"
    /\ lg = NoLg

-----------------------------------------------------------------------------
(* LogContext *)

\* str.lower() of the upper-case names the model uses
Lower(name) ==
    IF name = "DEBUG" THEN "debug"
    ELSE IF name = "INFO" THEN "info"
    ELSE IF name = "WARNING" THEN "warning"
    ELSE IF name = "ERROR" THEN "error"
    ELSE IF name = "CRITICAL" THEN "critical"
    ELSE IF name = "WARN" THEN "warn"
    ELSE IF name = "EXCEPTION" THEN "exception"
    ELSE IF name = "LEVEL" THEN "level"
    ELSE IF name = "TRACE" THEN "trace"
    ELSE name

\* the logging methods of AppLogger and the level each logs at
AppLoggerMethods == {"debug", "info", "warning", "error", "critical", "exception"}
MethodLevel(attr) ==
    IF attr = "debug" THEN "DEBUG"
    ELSE IF attr = "info" THEN "INFO"
    ELSE IF attr = "warning" THEN "WARNING"
    ELSE IF attr = "critical" THEN "CRITICAL"
    ELSE "ERROR"

\* attributes of an AppLogger that are not callable
AppLoggerFields ==
    {"name", "level", "log_dir", "log_filename", "max_bytes", "backup_count",
     "enable_console", "enable_file", "logger"}

\* hasattr(self.logger, attr)
LoggerHasAttr(attr) == attr \in AppLoggerMethods \cup AppLoggerFields

\* getattr(self.logger, self.level.lower())(message): the exception raised and
\* the logging calls made
CallByLevel(level, kind) ==
    LET attr == Lower(level)
    IN  IF ~LoggerHasAttr(attr) THEN [exc |-> NoExc, calls |-> <<>>]
        ELSE IF attr \in AppLoggerFields
        THEN [exc |-> Exc("TypeError", "not callable"), calls |-> <<>>]
        ELSE [exc |-> NoExc,
              calls |-> <<[level |-> MethodLevel(attr), kind |-> kind,
                           duration |-> kind = "exit"]>>]

\* an exit that logs at the level of the context whatever happened
SameLevel(level, raised) == CallByLevel(level, "exit")

\* LogContext.__exit__: the logging calls made; it returns None, so an
\* exception of the body propagates
ExitCalls(level, raised) ==
    IF ~raised THEN CallByLevel(level, "exit")
    ELSE [exc |-> NoExc,
          calls |-> <<[level |-> "ERROR", kind |-> "exit", duration |-> TRUE]>>]

ContextLevels ==
    {"debug", "DEBUG", "INFO", "WARNING", "ERROR", "CRITICAL", "warn", "TRACE",
     "EXCEPTION", "LEVEL"}
ContextNames == {"load", "save"}

NoContext == [level |-> "", name |-> "", phase |-> "none", raised |-> FALSE, exc |-> NoExc]

ContextIdle == ctx = NoContext /\ ctxlog = <<>> /\ nctx = 0

\* LogContext(logger, context_name, level): self.level = level.upper()
ContextCreate ==
    /\ ctx.phase \in {"none", "left", "failed"}
    /\ nctx < MaxContexts
    /\ \E level \in ContextLevels, name \in ContextNames :
          ctx' = [level |-> Upper(level), name |-> name, phase |-> "created",
                  raised |-> FALSE, exc |-> NoExc]
    /\ ctxlog' = <<>>
    /\ nctx' = nctx + 1

\* __enter__ at the head of the with statement; when it raises the body
\* does not run and __exit__ is not called
ContextEnter ==
    /\ ctx.phase = "created"
    /\ LET r == CallByLevel(ctx.level, "entry")
       IN  /\ ctx' = [ctx EXCEPT !.phase = IF r.exc = NoExc THEN "entered" ELSE "failed",
                                 !.exc = r.exc]
           /\ ctxlog' = ctxlog \o r.calls
    /\ UNCHANGED nctx

\* the body ends, normally or with an exception, and __exit__ runs; the
\* with statement re-raises the exception of the body unless __exit__
\* returns a true value
ContextExit ==
    /\ ctx.phase = "entered"
    /\ \E raised \in BOOLEAN :
          LET r == ExitCalls(ctx.level, raised)
          IN  /\ ctx' = [ctx EXCEPT !.phase = "left", !.raised = raised,
                                    !.exc = IF r.exc # NoExc THEN r.exc
                                            ELSE IF raised THEN Exc("BodyError", "")
                                            ELSE NoExc]
              /\ ctxlog' = ctxlog \o r.calls
    /\ UNCHANGED nctx

-----------------------------------------------------------------------------
(* Specifications *)

MergeIdle == mA = MNone /\ mB = MNone /\ mR = MNone

\* the files the calls after construction start from
OpsFileInputs == {Absent, Holding(FileLevelError), Holding(FileShadow)}

Init ==
    ConfigInitOver(OpsFileInputs, {NoArg}, ConfigFileArgs) /\ MergeIdle /\ ArgsIdle
    /\ ChecksIdle /\ LoggerIdle /\ ManagerIdle /\ ContextIdle

Next ==
    \/ Construct /\ UNCHANGED <<mergeVars, argVars, checkVars, logVars, mgrVars, ctxVars>>
    \/ Load /\ UNCHANGED <<mergeVars, argVars, checkVars, logVars, mgrVars, ctxVars>>
    \/ Save /\ UNCHANGED <<mergeVars, argVars, checkVars, logVars, mgrVars, ctxVars>>
    \/ GetCall /\ UNCHANGED <<mergeVars, argVars, checkVars, logVars, mgrVars, ctxVars>>
    \/ SetCall /\ UNCHANGED <<mergeVars, argVars, checkVars, logVars, mgrVars, ctxVars>>
    \/ Update /\ UNCHANGED <<mergeVars, argVars, checkVars, logVars, mgrVars, ctxVars>>
    \/ ResetToDefault /\ UNCHANGED <<mergeVars, argVars, checkVars, logVars, mgrVars, ctxVars>>
    \/ GetConfigDict /\ UNCHANGED <<mergeVars, argVars, checkVars, logVars, mgrVars, ctxVars>>

Spec == Init /\ [][Next]_vars

\* the configuration manager is not used while _merge_configs is examined alone
ConfigIdle ==
    /\ heap = <<>> /\ default_config = 0 /\ config = 0
    /\ config_dir = DEFAULT_CONFIG_DIR
    /\ config_file = [dir |-> DEFAULT_CONFIG_DIR, name |-> DEFAULT_CONFIG_FILENAME]
    /\ create_if_not_exists = TRUE
    /\ file = Absent /\ dirs = {"."}
    /\ last = NoCall
    /\ pre = [file |-> file, dirs |-> dirs, cfg |-> NoneV, dflt |-> NoneV]
    /\ nops = 0

\* construction and load_config() over every state of the file
InitLoad ==
    ConfigInitOver(FileInputs, ConfigDirArgs, ConfigFileArgs) /\ MergeIdle /\ ArgsIdle
    /\ ChecksIdle /\ LoggerIdle /\ ManagerIdle /\ ContextIdle
NextLoad ==
    \/ Construct /\ UNCHANGED <<mergeVars, argVars, checkVars, logVars, mgrVars, ctxVars>>
    \/ Load /\ UNCHANGED <<mergeVars, argVars, checkVars, logVars, mgrVars, ctxVars>>
SpecLoad == InitLoad /\ [][NextLoad]_vars

InitMerge == MergeInit /\ ConfigIdle /\ ArgsIdle /\ ChecksIdle /\ LoggerIdle /\ ManagerIdle /\ ContextIdle
NextMerge == MergeApply /\ UNCHANGED <<cfgVars, argVars, checkVars, logVars, mgrVars, ctxVars>>
SpecMerge == InitMerge /\ [][NextMerge]_vars

\* the argument parser on every command line
InitArgs == ArgsInit /\ ConfigIdle /\ MergeIdle /\ ChecksIdle /\ LoggerIdle /\ ManagerIdle /\ ContextIdle
NextArgs ==
    \/ ParseArgsCall /\ UNCHANGED <<cfgVars, mergeVars, checkVars, logVars, mgrVars, ctxVars>>
    \/ ValidateArgsCall /\ UNCHANGED <<cfgVars, mergeVars, checkVars, logVars, mgrVars, ctxVars>>
    \/ RunModule /\ UNCHANGED <<cfgVars, mergeVars, checkVars, logVars, mgrVars, ctxVars>>
SpecArgs == InitArgs /\ [][NextArgs]_vars

\* the checks called one after another on one file system
InitChecks == ChecksInit /\ ConfigIdle /\ MergeIdle /\ LoggerIdle /\ ManagerIdle /\ ContextIdle
NextChecks ==
    \/ CheckRange /\ UNCHANGED <<cfgVars, mergeVars, declared, cli, exit_code, logVars, mgrVars, ctxVars>>
    \/ CheckExclusive /\ UNCHANGED <<cfgVars, mergeVars, declared, cli, exit_code, logVars, mgrVars, ctxVars>>
    \/ CheckConditional /\ UNCHANGED <<cfgVars, mergeVars, declared, cli, exit_code, logVars, mgrVars, ctxVars>>
    \/ CheckFileExists /\ UNCHANGED <<cfgVars, mergeVars, declared, cli, exit_code, logVars, mgrVars, ctxVars>>
    \/ CheckPathExists /\ UNCHANGED <<cfgVars, mergeVars, declared, cli, exit_code, logVars, mgrVars, ctxVars>>
    \/ CheckWritableDirectory /\ UNCHANGED <<cfgVars, mergeVars, declared, cli, exit_code, logVars, mgrVars, ctxVars>>
SpecChecks == InitChecks /\ [][NextChecks]_vars

\* setup_logger called again and again on one log directory
InitLogger ==
    /\ LoggerInit /\ ConfigIdle /\ MergeIdle /\ ArgsIdle /\ ChecksIdle /\ ManagerIdle
    /\ ContextIdle
NextLogger ==
    \/ SetupLoggerCall /\ UNCHANGED <<cfgVars, mergeVars, argVars, checkVars, mgrVars, ctxVars>>
    \/ SetLogLevelCall /\ UNCHANGED <<cfgVars, mergeVars, argVars, checkVars, mgrVars, ctxVars>>
SpecLogger == InitLogger /\ [][NextLogger]_vars

\* the module-level functions of app_config.py called one after another
InitManager ==
    /\ ConfigInitOver(OpsFileInputs, {NoArg}, ConfigFileArgs)
    /\ create_if_not_exists = TRUE
    /\ MergeIdle /\ ArgsIdle /\ ChecksIdle /\ LoggerIdle /\ ManagerIdle /\ ContextIdle
NextManager ==
    \/ GetConfigManagerCall /\ UNCHANGED <<mergeVars, argVars, checkVars, logVars, ctxVars>>
    \/ GetConfigCall /\ UNCHANGED <<mergeVars, argVars, checkVars, logVars, ctxVars>>
    \/ SetConfigCall /\ UNCHANGED <<mergeVars, argVars, checkVars, logVars, ctxVars>>
    \/ SaveConfigCall /\ UNCHANGED <<mergeVars, argVars, checkVars, logVars, ctxVars>>
SpecManager == InitManager /\ [][NextManager]_vars

\* `with LogContext(logger, name, level):` entered and left, one after another
InitContext ==
    /\ ContextIdle /\ ConfigIdle /\ MergeIdle /\ ArgsIdle /\ ChecksIdle /\ LoggerIdle
    /\ ManagerIdle
NextContext ==
    \/ ContextCreate /\ UNCHANGED <<cfgVars, mergeVars, argVars, checkVars, logVars, mgrVars>>
    \/ ContextEnter /\ UNCHANGED <<cfgVars, mergeVars, argVars, checkVars, logVars, mgrVars>>
    \/ ContextExit /\ UNCHANGED <<cfgVars, mergeVars, argVars, checkVars, logVars, mgrVars>>
SpecContext == InitContext /\ [][NextContext]_vars

-----------------------------------------------------------------------------
(* Pure trees: paths and the merge by its rules *)

Missing == PS("<missing>")

RECURSIVE At(_, _)
\* the value of tree t at the key sequence, Missing when a component does not
\* resolve through a mapping
At(t, keys) ==
    IF keys = <<>> THEN t
    ELSE IF t.k = "d" /\ Head(keys) \in DOMAIN t.d
         THEN At(t.d[Head(keys)], Tail(keys))
         ELSE Missing

RECURSIVE LeavesFrom(_, _)
LeavesFrom(t, prefix) ==
    IF t.k = "s" THEN {prefix}
    ELSE UNION { LeavesFrom(t.d[key], Append(prefix, key)) : key \in DOMAIN t.d }

\* the key sequences at which t holds a value that is not a mapping
LeafPaths(t) == LeavesFrom(t, <<>>)

IsMapping(v) == v.k = "d"
IsLeaf(v) == v.k = "s" /\ v # Missing

\* a proper prefix of keys resolves to a value that is not a mapping
ThroughLeaf(t, keys) ==
    \E n \in 1..(Len(keys) - 1) : IsLeaf(At(t, SubSeq(keys, 1, n)))

RECURSIVE MergedTree(_, _)
\* the merge of B over A, key by key
MergedTree(A, B) ==
    PD([key \in DOMAIN A.d \cup DOMAIN B.d |->
          IF key \notin DOMAIN B.d THEN A.d[key]
          ELSE IF key \notin DOMAIN A.d THEN B.d[key]
          ELSE IF IsMapping(A.d[key]) /\ IsMapping(B.d[key])
               THEN MergedTree(A.d[key], B.d[key])
               ELSE B.d[key]])

-----------------------------------------------------------------------------
(* C1 *)

\* C1: _merge_configs(A, B): a key only in A keeps A's value, a key only in B
\* gets B's value, a key in both with mappings on both sides holds the
\* recursive merge, and otherwise B's value wins outright.
C1_DeepMerge == mR # MNone => mR = MergedTree(mA, mB)

\* a merge that recursed two levels below the root, with a key only in A
\* and a key only in B at the deepest level, and a mapping of A replaced by a
\* scalar of B
C1_Witness ==
    /\ mR # MNone
    /\ IsMapping(At(mA, <<"a", "a">>)) /\ IsMapping(At(mB, <<"a", "a">>))
    /\ At(mA, <<"a", "a", "b">>) # Missing /\ At(mB, <<"a", "a", "b">>) = Missing
    /\ At(mA, <<"a", "a", "a">>) = Missing /\ At(mB, <<"a", "a", "a">>) # Missing
    /\ IsMapping(At(mA, <<"a", "b">>)) /\ IsLeaf(At(mB, <<"a", "b">>))
    /\ At(mR, <<"a", "a", "b">>) = At(mA, <<"a", "a", "b">>)
    /\ At(mR, <<"a", "b">>) = At(mB, <<"a", "b">>)

-----------------------------------------------------------------------------
(* C2 - C4: load_config *)

IsLoad == last.op \in {"init", "load"}

\* the tree load_config returned (self.config after __init__)
Loaded == IF last.op = "init" THEN TreeAt(heap, config) ELSE last.ret

HoldsObject(f) == f.st = "ok" /\ IsMapping(f.tree)

\* C2 as stated: after loading a file that holds a JSON object, every leaf
\* path of the file has the file's value, every default leaf path that is not
\* a leaf path of the file has its default value, and keys unknown to the
\* defaults appear unchanged.
C2_AsStated ==
    (IsLoad /\ HoldsObject(pre.file)) =>
        /\ \A p \in LeafPaths(pre.file.tree) : At(Loaded, p) = At(pre.file.tree, p)
        /\ \A p \in LeafPaths(DefaultTree) \ LeafPaths(pre.file.tree) :
              At(Loaded, p) = At(DefaultTree, p)
        /\ \A key \in DOMAIN pre.file.tree.d \ DOMAIN DefaultTree.d :
              At(Loaded, <<key>>) = pre.file.tree.d[key]

\* the file holds a value at the path, or a non-mapping value at a prefix of it
FileDefines(t, p) == At(t, p) # Missing \/ ThroughLeaf(t, p)

\* C2 amended: after loading a file that holds a JSON object, every leaf path
\* of the file has the file's value, every default leaf path has its default
\* value unless the file holds a value at that path or a non-mapping value at
\* one of its prefixes, and keys unknown to the defaults appear unchanged; a
\* file {"logging": {"level": "ERROR"}} gives logging.level = ERROR while
\* logging.enable_console stays true.
C2_LoadMerges ==
    (IsLoad /\ HoldsObject(pre.file)) =>
        /\ last.exc = "none"
        /\ \A p \in LeafPaths(pre.file.tree) : At(Loaded, p) = At(pre.file.tree, p)
        /\ \A p \in LeafPaths(DefaultTree) :
              ~FileDefines(pre.file.tree, p) => At(Loaded, p) = At(DefaultTree, p)
        /\ \A key \in DOMAIN pre.file.tree.d \ DOMAIN DefaultTree.d :
              At(Loaded, <<key>>) = pre.file.tree.d[key]
        /\ pre.file.tree = FileLevelError =>
              /\ At(Loaded, <<"logging", "level">>) = PS("ERROR")
              /\ At(Loaded, <<"logging", "enable_console">>) = PS("true")

\* the file {"logging": {"level": "ERROR"}} has been loaded
C2_Witness ==
    /\ last.op = "init"
    /\ pre.file = Holding(FileLevelError)
    /\ At(Loaded, <<"logging", "level">>) = PS("ERROR")

Unparseable(f) ==
    \/ f.st \in {"unreadable", "badjson"}
    \/ f.st = "ok" /\ ~IsMapping(f.tree)

\* C3: construction and load_config complete without raising for every state
\* of the file and both values of create_if_not_exists, and when the file
\* cannot be read, parsed or merged the result equals the built-in defaults.
C3_LoadNeverFatal ==
    IsLoad =>
        /\ last.exc = "none"
        /\ Unparseable(pre.file) => Loaded = DefaultTree

\* construction over a file that holds JSON that is not an object
C3_Witness ==
    /\ last.op = "init"
    /\ pre.file = Holding(PS("[1,2]"))
    /\ Loaded = DefaultTree

\* C4: the file is absent at load: with create_if_not_exists the file then
\* exists and holds the default tree and the configuration equals the
\* defaults; without it no file or directory is created and the configuration
\* equals the defaults.
C4_AbsentFile ==
    (IsLoad /\ pre.file.st = "absent") =>
        /\ Loaded = DefaultTree
        /\ create_if_not_exists => file = Holding(DefaultTree)
        /\ ~create_if_not_exists => file = pre.file /\ dirs = pre.dirs

-----------------------------------------------------------------------------
(* C5 - C8: get, set, save_config, reset_to_default *)

\* C5: get never raises; it returns the value at the path when every
\* component resolves through nested mappings and otherwise the default.
C5_GetTotal ==
    last.op = "get" =>
        /\ last.exc = "none"
        /\ last.ret = IF At(pre.cfg, Split(last.p)) # Missing
                      THEN At(pre.cfg, Split(last.p))
                      ELSE Deref(heap, GetDefault)

\* a get whose path runs through a string value returned the default
C5_Witness ==
    /\ last.op = "get"
    /\ last.p = <<"logging", ".", "level", ".", "x">>
    /\ IsLeaf(At(pre.cfg, <<"logging", "level">>))
    /\ last.ret = Deref(heap, GetDefault)

\* what get(p) returns now
GetNow(p) == Deref(heap, Get(heap, config, p, GetDefault).ret)

\* C6 as stated: for every tree, path p and value v, set(p, v) completes and
\* an immediately following get(p) returns v.
C6_AsStated ==
    last.op = "set" => last.exc = "none" /\ GetNow(last.p) = last.v

\* C6 amended: when no proper prefix of p resolves to a value that is not a
\* mapping, set(p, v) completes, creating the missing intermediate maps, and
\* an immediately following get(p) returns v; when a proper prefix resolves to
\* a non-mapping value, set raises TypeError and leaves the tree as it was.
C6_SetGet ==
    last.op = "set" =>
        IF ThroughLeaf(pre.cfg, Split(last.p))
        THEN last.exc = "TypeError" /\ TreeAt(heap, config) = pre.cfg
        ELSE last.exc = "none" /\ GetNow(last.p) = last.v

\* a set that created two intermediate maps, then read back
C6_Witness ==
    /\ last.op = "set"
    /\ last.p = <<"new", ".", ".", "z">>
    /\ At(pre.cfg, <<"new">>) = Missing
    /\ IsMapping(At(TreeAt(heap, config), <<"new", "">>))
    /\ GetNow(last.p) = last.v

\* C7: save_config creates the directory that contains config_file before
\* writing: a save succeeds when that directory does not yet exist, and the
\* file then holds the in-memory tree.
C7_SaveCreatesDir ==
    (last.op = "save" /\ config_file.dir \notin pre.dirs) =>
        /\ last.exc = "none"
        /\ file = Holding(TreeAt(heap, config))

\* C8: reset_to_default leaves the in-memory configuration equal to the
\* built-in default tree as it was at construction, and the tree it writes
\* to the config file is that tree.
C8_ResetRestores ==
    last.op = "reset" =>
        /\ TreeAt(heap, config) = DefaultTree
        /\ last.exc = "none" => file = Holding(DefaultTree)

-----------------------------------------------------------------------------
(* C9 - C10: argument post-processing and dependency validation *)

\* C9: --debug takes highest precedence: for every verbose count, quiet flag
\* and supplied --log-level, if debug is set the post-processed log_level is
\* DEBUG.
C9_DebugWins ==
    (cli.call = "parse_args" /\ cli.argv.debug /\ cli.exc = NoExc) =>
        cli.ret.log_level = "DEBUG"

\* C10: a command line with --quiet and --verbose, or with --dry-run and
\* --force, is rejected: validate_args ends with an error and does not
\* return the record.
C10_ExclusiveRejected ==
    (/\ cli.call = "validate_args"
     /\ \/ cli.argv.quiet /\ cli.argv.verbose > 0
        \/ cli.argv.dry_run /\ cli.argv.force) =>
        cli.exc # NoExc

-----------------------------------------------------------------------------
(* C11 - C12: what validate_args requires of the mode and of the inputs *)

\* the command line passes parse_args
Parses(argv) == ParseArgs(argv, declared, fs).exc = NoExc

RequiredMissing(argv) ==
    \/ argv.mode = "convert" /\ argv.output = NoPath
    \/ argv.mode = "batch" /\ argv.input = <<>>

\* C11: validate_args ends with a conditional-required validation error
\* whenever mode is convert and no output is given, and whenever mode is batch
\* and the input list is empty; for modes analyze and validate neither output
\* nor input is required.
C11_ModeRequires ==
    (cli.call = "validate_args" /\ Parses(cli.argv)) =>
        /\ RequiredMissing(cli.argv) =>
              cli.exc = Exc("ValidationError", "CONDITIONAL_REQUIRED_ERROR")
        /\ cli.argv.mode \in {"analyze", "validate"} =>
              cli.exc.code # "CONDITIONAL_REQUIRED_ERROR"

SomeInputMissing(argv) ==
    \E i \in 1..Len(argv.input) : ~Exists(fs, argv.input[i])

\* C12: validate_args returns a parsed record only if every element of its
\* input list exists as a file or directory; if a supplied input path does
\* not exist it ends with a file-operation error with code PATH_NOT_FOUND.
C12_InputsMustExist ==
    cli.call = "validate_args" =>
        /\ cli.exc = NoExc => ~SomeInputMissing(cli.argv)
        /\ (Parses(cli.argv) /\ ~RequiredMissing(cli.argv) /\ SomeInputMissing(cli.argv)) =>
              cli.exc = Exc("FileOperationError", "PATH_NOT_FOUND")

-----------------------------------------------------------------------------
(* C13: the exit status of a run *)

\* a command line validate_args has nothing to object to: the files it names
\* exist, no pair of exclusive flags, only declared flags
WellFormed(argv) ==
    /\ ~RequiredMissing(argv)
    /\ ~SomeInputMissing(argv)
    /\ argv.config = NoPath \/ IsFile(fs, argv.config)
    /\ argv.output = NoPath \/ IsDir(fs, argv.output)
    /\ argv.verbose = 0 /\ ~argv.quiet /\ ~argv.dry_run /\ ~argv.force

\* C13: a run of the entry point with --mode convert and no --output, or with
\* --mode batch and no positional input, ends with a non-zero exit code; a
\* run without argument errors ends with exit code 0.
C13_ExitStatus ==
    cli.call = "main" =>
        /\ RequiredMissing(cli.argv) => exit_code # "0"
        /\ WellFormed(cli.argv) => exit_code = "0"

-----------------------------------------------------------------------------
(* C14 - C19: the checks of app_validation.py *)

Raised == chk.exc # NoExc

\* the values that count as not given: the empty string, the empty list,
\* None (and False)
NotGiven(v) ==
    \/ v.t = "none"
    \/ v.t \in {"str", "list", "tuple"} /\ v.items = <<>>
    \/ v.t = "bool" /\ ~v.b

\* the number of true values among the positional values
TruthyCount(values) == Cardinality({ i \in 1..Len(values) : ~NotGiven(values[i]) })

\* C14: validate_mutually_exclusive raises iff two or more of the supplied
\* flag values are truthy, and returns normally when zero or one is, for
\* every number of values and every names list, also omitted or of another
\* length than the values.
C14_ExclusiveIff ==
    chk.fn = "validate_mutually_exclusive" =>
        (Raised <=> TruthyCount(chk.values) >= 2)

\* C15: validate_range(v, lo, hi) raises iff v < lo or v > hi; v = lo and
\* v = hi pass; a bound given as None imposes no limit on that side.
C15_RangeIff ==
    chk.fn = "validate_range" =>
        LET v == chk.value
            lo == chk.min_val
            hi == chk.max_val
        IN  /\ Raised <=> \/ ~lo.none /\ v < lo.n
                          \/ ~hi.none /\ v > hi.n
            /\ (~lo.none /\ v = lo.n /\ (hi.none \/ v <= hi.n)) => ~Raised
            /\ (~hi.none /\ v = hi.n /\ (lo.none \/ v >= lo.n)) => ~Raised
            /\ (lo.none /\ hi.none) => ~Raised

\* a value on both boundaries at once passed, and a value below the minimum
\* is the other case of the same check
C15_Witness ==
    /\ chk.fn = "validate_range"
    /\ chk.min_val = Bound(MaxValue) /\ chk.max_val = Bound(MaxValue)
    /\ chk.value = MaxValue
    /\ ~Raised

\* C16: validate_conditional_required(cond, value) raises iff cond is true
\* and value is falsy (empty string, empty list, None); it never raises when
\* cond is false, whatever the value.
C16_ConditionalIff ==
    chk.fn = "validate_conditional_required" =>
        /\ Raised <=> (chk.condition /\ NotGiven(chk.required))
        /\ ~chk.condition => ~Raised

\* the check raised for an empty list under a true condition
C16_Witness ==
    /\ chk.fn = "validate_conditional_required"
    /\ chk.condition /\ chk.required = ListV(<<>>)
    /\ Raised

\* the class of error a failing check documents
DocumentedType(fn) ==
    IF fn \in {"validate_range", "validate_mutually_exclusive",
               "validate_conditional_required"}
    THEN "ValidationError" ELSE "FileOperationError"

\* the error codes a failing check can carry
DocumentedCodes(fn) ==
    IF fn = "validate_range" THEN {"MIN_VALUE_ERROR", "MAX_VALUE_ERROR"}
    ELSE IF fn = "validate_mutually_exclusive" THEN {"MUTUALLY_EXCLUSIVE_ARGS"}
    ELSE IF fn = "validate_conditional_required" THEN {"CONDITIONAL_REQUIRED_ERROR"}
    ELSE IF fn = "validate_file_exists" THEN {"FILE_NOT_FOUND", "NOT_A_FILE"}
    ELSE IF fn = "validate_file_or_directory_exists" THEN {"PATH_NOT_FOUND"}
    ELSE {"DIRECTORY_NOT_FOUND", "NOT_A_DIRECTORY", "PERMISSION_DENIED",
          "DIRECTORY_CREATION_ERROR"}

\* C17: every failing check ends with a typed application error
\* (ValidationError for value checks, FileOperationError for path checks)
\* that carries the error code of that check, MIN_VALUE_ERROR below the
\* minimum, MAX_VALUE_ERROR above the maximum, FILE_NOT_FOUND for a missing
\* file; no other kind of error is the outcome of a failed check.
C17_TypedErrors ==
    (chk.fn # "none" /\ Raised) =>
        /\ chk.exc.type = DocumentedType(chk.fn)
        /\ chk.exc.code \in DocumentedCodes(chk.fn)
        /\ (chk.fn = "validate_range" /\ Below(chk.value, chk.min_val)) =>
              chk.exc.code = "MIN_VALUE_ERROR"
        /\ (chk.fn = "validate_range" /\ ~Below(chk.value, chk.min_val)) =>
              chk.exc.code = "MAX_VALUE_ERROR"
        /\ (chk.fn = "validate_file_exists" /\ ~Exists(chk.before, chk.path)) =>
              chk.exc.code = "FILE_NOT_FOUND"

\* the outcome of the recorded call on the file system f
Outcome(c, f) ==
    IF c.fn = "validate_range" THEN validate_range(c.value, c.min_val, c.max_val)
    ELSE IF c.fn = "validate_mutually_exclusive"
    THEN validate_mutually_exclusive(c.values, c.names)
    ELSE IF c.fn = "validate_conditional_required"
    THEN validate_conditional_required(c.condition, c.required)
    ELSE IF c.fn = "validate_file_exists" THEN validate_file_exists(f, c.path)
    ELSE IF c.fn = "validate_file_or_directory_exists"
    THEN validate_file_or_directory_exists(f, c.path)
    ELSE validate_writable_directory(f, c.path, c.create_if_missing).exc

\* nothing but the checks' own variables and the file system can have moved
ProgramStateUntouched == ConfigIdle /\ MergeIdle /\ cli = NoCli /\ exit_code = NotRun

\* C18 as stated: a call to any check changes no state, neither program
\* state nor the file system, and its outcome depends only on its arguments
\* and the current file-system state.
C18_AsStated ==
    chk.fn # "none" =>
        /\ ProgramStateUntouched
        /\ fs = chk.before
        /\ chk.exc = Outcome(chk, chk.before)

\* the call was validate_writable_directory with create_if_missing on an
\* absent path whose directory can be made
CreatedByCheck ==
    /\ chk.fn = "validate_writable_directory"
    /\ chk.create_if_missing
    /\ chk.before[chk.path.name] = "missing"

\* C18 amended: a call to any check changes no program state, and changes the
\* file system in one case only: validate_writable_directory with
\* create_if_missing on an absent path creates that directory; the outcome
\* depends only on the arguments and the file system the call started from.
C18_ChecksPure ==
    chk.fn # "none" =>
        /\ ProgramStateUntouched
        /\ fs = IF CreatedByCheck
                THEN [chk.before EXCEPT ![chk.path.name] = "dir"]
                ELSE chk.before
        /\ chk.exc = Outcome(chk, chk.before)

\* a check created the directory it was asked about and returned
C18_Witness ==
    /\ CreatedByCheck
    /\ fs # chk.before
    /\ ~Raised

\* C19: validate_writable_directory returns normally only if afterwards the
\* path exists, is a directory and is writable; an absent path with
\* create_if_missing is created before the checks; an absent path without
\* create_if_missing raises DIRECTORY_NOT_FOUND and nothing is created; a path
\* that is not a directory raises NOT_A_DIRECTORY; a directory that is not
\* writable raises PERMISSION_DENIED.
C19_WritableDirectory ==
    chk.fn = "validate_writable_directory" =>
        LET kind == chk.before[chk.path.name]
        IN  /\ ~Raised => fs[chk.path.name] = "dir"
            /\ (kind = "missing" /\ chk.create_if_missing) =>
                  fs[chk.path.name] = "dir" /\ ~Raised
            /\ (kind \in {"missing", "noperm", "blocked"} /\ ~chk.create_if_missing) =>
                  /\ chk.exc = Exc("FileOperationError", "DIRECTORY_NOT_FOUND")
                  /\ fs = chk.before
            /\ kind = "file" =>
                  chk.exc = Exc("FileOperationError", "NOT_A_DIRECTORY")
            /\ kind = "rodir" =>
                  chk.exc = Exc("FileOperationError", "PERMISSION_DENIED")

-----------------------------------------------------------------------------
(* C20: the file handler of the logger *)

HandlerKinds(l) == { l.handlers[i].kind : i \in 1..Len(l.handlers) }

WarningLogged(l) == \E i \in 1..Len(l.records) : l.records[i].level = "WARNING"

\* C20: setup with file output enabled: if creating the log directory or the
\* rotating file handler fails, then with console output enabled setup
\* completes with the console handler only and a warning is logged, and with
\* console output disabled setup fails with an error; when the creation of
\* the file handler succeeds the logger has the file handler attached.
C20_FileHandlerFallback ==
    (/\ lg.call = "setup_logger"
     /\ lg.enable_file
     /\ IsDocumentedLevel(Upper(lg.level))) =>
        /\ (FileHandlerFails(lg.before) /\ lg.enable_console) =>
              /\ lg.exc = NoExc
              /\ HandlerKinds(logger) = {"console"}
              /\ WarningLogged(logger)
        /\ (FileHandlerFails(lg.before) /\ ~lg.enable_console) => lg.exc # NoExc
        /\ ~FileHandlerFails(lg.before) =>
              /\ lg.exc = NoExc
              /\ "file" \in HandlerKinds(logger)

-----------------------------------------------------------------------------
(* C21: level strings *)

\* C21: AppLogger construction and set_level raise ValueError for every level
\* string that is not one of DEBUG, INFO, WARNING, ERROR, CRITICAL, compared
\* case-insensitively, and on that error the logger's level and its handlers'
\* levels are unchanged.
C21_InvalidLevelRejected ==
    (lg.call \in {"setup_logger", "set_log_level"}
        /\ ~IsDocumentedLevel(Upper(lg.level))) =>
        /\ lg.exc.type = "ValueError"
        /\ logger.level = lg.was.level
        /\ logger.handlers = lg.was.handlers

-----------------------------------------------------------------------------
(* C22: the configuration manager *)

\* C22: get_config_manager creates an AppConfig at most once and every later
\* call returns that instance whatever config_file it is given; a value
\* written with set_config(p, v) is returned by every later get_config(p)
\* until it is overwritten.
C22_Singleton ==
    /\ instances <= 1
    /\ config_manager \in {0, 1}
    /\ (last.op = "get_config_manager" /\ pre.cfg # NoneV) =>
          /\ last.exc = "none"
          /\ TreeAt(heap, config) = pre.cfg
          /\ file = pre.file
    /\ last.op = "get_config" =>
          \A e \in written : e[1] = last.p => last.exc = "none" /\ last.ret = e[2]

\* two values written through set_config, then the manager asked for with
\* another config_file than the one it was made with: the same instance,
\* still holding both values
C22_Witness ==
    /\ last.op = "get_config_manager"
    /\ last.v = Scalar("other/my.json")
    /\ config_file # PathOf("other/my.json")
    /\ instances = 1
    /\ Cardinality(written) = 2
    /\ \A e \in written : GetNow(e[1]) = e[2]

-----------------------------------------------------------------------------
(* C23: the configuration path *)

\* the file system with the default configuration file of kind k
WithDefaultConfig(k) == [fs EXCEPT ![DEFAULT_CONFIG_FILENAME] = k]

\* C23: when --config is not supplied validate_args does not require the
\* configuration file to exist; an explicitly supplied configuration path must
\* exist and be a regular file, otherwise the call ends with a file-operation
\* error.
C23_ConfigPath ==
    (cli.call = "validate_args" /\ declared = OptionalFlags) =>
        /\ cli.argv.config = NoPath =>
              \A k \in {"missing", "file"} :
                  cli.exc = ValidateArgs(cli.argv, declared, WithDefaultConfig(k)).exc
        /\ cli.argv.config # NoPath =>
              IF IsFile(fs, cli.argv.config)
              THEN cli.exc.type # "FileOperationError"
              ELSE cli.exc.type = "FileOperationError"

-----------------------------------------------------------------------------
(* C24: the derived log level *)

\* the choice of --log-level that lets the fewest records through
MostRestrictive ==
    CHOOSE l \in LogLevelChoices : \A m \in LogLevelChoices : LevelNo(m) <= LevelNo(l)

\* the command line gives no flag the parser does not declare and no
\* configuration file that is missing
Accepted(argv) == ArgparseParse(argv, declared, fs).exc = NoExc

\* C24: with debug unset, verbose >= 2 yields DEBUG, verbose == 1 yields INFO
\* and verbose == 0 leaves the supplied --log-level; whenever quiet is set the
\* result is the most restrictive log level and no_console is true.
C24_LevelDerivation ==
    (cli.call = "parse_args" /\ ~cli.argv.debug /\ Accepted(cli.argv)) =>
        /\ cli.exc = NoExc
        /\ IF cli.argv.quiet
           THEN cli.ret.log_level = MostRestrictive /\ cli.ret.no_console
           ELSE cli.ret.log_level =
                   IF cli.argv.verbose >= 2 THEN "DEBUG"
                   ELSE IF cli.argv.verbose = 1 THEN "INFO"
                   ELSE cli.argv.log_level

-----------------------------------------------------------------------------
(* C25: parser terminations *)

\* what the underlying parser does with the command line of the last call
Parsed == ArgparseParse(cli.argv, declared, fs)

-----------------------------------------------------------------------------
(* C26: LogContext *)

EntryRecord(level) == [level |-> level, kind |-> "entry", duration |-> FALSE]
ExitRecord(level) == [level |-> level, kind |-> "exit", duration |-> TRUE]

\* the logging calls of a context with this level, by its phase
RecordsOf(level) ==
    IF ctx.phase = "created" THEN <<>>
    ELSE IF ctx.phase = "entered" THEN <<EntryRecord(level)>>
    ELSE <<EntryRecord(level),
           ExitRecord(IF ctx.raised THEN "ERROR" ELSE level)>>

-----------------------------------------------------------------------------
(* C27: level consistency *)

\* every handler of the logger is at this level
HandlersAt(l, level) == \A i \in 1..Len(l.handlers) : l.handlers[i].level = level

\* the setup can complete: the file handler is not asked for, or can be
\* created, or the console handler takes over
CanSetUp ==
    ~lg.enable_file \/ ~FileHandlerFails(lg.before) \/ lg.enable_console

\* C27: after the construction of an AppLogger with a level L, and after
\* every successful set_level(L), the underlying logger and each of its
\* handlers are at the AppLogger's current level, L.
C27_LevelConsistency ==
    /\ (lg.call = "setup_logger" /\ IsDocumentedLevel(Upper(lg.level)) /\ CanSetUp) =>
          /\ lg.exc = NoExc
          /\ app_logger.set
          /\ app_logger.level = LevelNo(Upper(lg.level))
          /\ logger.level = app_logger.level
          /\ HandlersAt(logger, app_logger.level)
    /\ (lg.call = "set_log_level" /\ lg.exc = NoExc) =>
          /\ app_logger.level = LevelNo(Upper(lg.level))
          /\ logger.level = app_logger.level
          /\ HandlersAt(logger, app_logger.level)

-----------------------------------------------------------------------------
(* C30: handlers *)

\* the number of handlers of one kind on the logger
CountKind(l, kind) == Cardinality({i \in 1..Len(l.handlers) : l.handlers[i].kind = kind})

\* C30: after any sequence of AppLogger constructions and setup_logger calls
\* for one logger name the logger has at most one console handler and at most
\* one file handler, exactly those the flags of the most recent setup called
\* for (the file handler only if its creation succeeded).
C30_NoHandlerDuplication ==
    (lg.call = "setup_logger" /\ IsDocumentedLevel(Upper(lg.level))) =>
        /\ CountKind(logger, "console") = IF lg.enable_console THEN 1 ELSE 0
        /\ CountKind(logger, "file") =
              IF lg.enable_file /\ ~FileHandlerFails(lg.before) THEN 1 ELSE 0

-----------------------------------------------------------------------------
(* C28: the default tree *)

\* C28: the built-in default tree of an AppConfig is never changed: after
\* any sequence of load_config, get, set, update, save_config,
\* reset_to_default and get_config_dict calls, default_config still equals
\* the tree built at construction.
C28_DefaultsUntouched ==
    default_config # 0 => TreeAt(heap, default_config) = DefaultTree

-----------------------------------------------------------------------------
(* C29: save, then load in a new AppConfig *)

\* the configuration of a new AppConfig constructed now with the same
\* arguments: AppConfig.__init__ on the file as it is
Reloaded ==
    LET d == Alloc(heap, DefaultTree)
    IN  IF d.v.k # "d" THEN NoneV   \* the dict literal is built first
        ELSE LET l == LoadConfig(d.h, d.v.a, config_dir, config_file,
                                 create_if_not_exists, file, dirs)
             IN  TreeAt(l.h, l.a)

\* C29 as stated: after save_config() a new AppConfig constructed on the same
\* file has an in-memory configuration equal to the one that was saved.
C29_AsStated ==
    (last.op = "save" /\ last.exc = "none") => Reloaded = TreeAt(heap, config)

\* C29 amended: after a save_config() that returns normally, a new AppConfig
\* constructed on the same file has as its configuration the built-in defaults
\* merged recursively with the saved tree, the saved values winning; it equals
\* the saved tree exactly when that merge adds nothing to it.
C29_RoundTrip ==
    (last.op = "save" /\ last.exc = "none") =>
        /\ file = Holding(TreeAt(heap, config))
        /\ Reloaded = MergedTree(DefaultTree, TreeAt(heap, config))

\* a default section replaced by an empty mapping, saved, and read back with
\* the default keys filled in again
C29_Witness ==
    /\ last.op = "save"
    /\ last.exc = "none"
    /\ At(TreeAt(heap, config), <<"logging">>) = EmptyDict
    /\ At(Reloaded, <<"logging", "level">>) # Missing

====
